---- MODULE Spec2Model ----
(***************************************************************************)
(* The row transformation and append pipeline of kilwatt-data-automation:  *)
(* column resolver, row filter, schema mapper and append engine            *)
(* (src/excel_processor.py, src/transformer.py).                           *)
(*                                                                         *)
(* Python strings are sequences of one-character strings, so that strip,   *)
(* lower, the regular expressions and the substring tests are computed.    *)
(* pandas frames are [columns, index, rows]: rows maps an index label to   *)
(* the tuple of the row's values, in the order of columns.                 *)
(***************************************************************************)
EXTENDS Integers, Sequences, FiniteSets, TLC

VARIABLES
    df,        \* the input table handed to filter_sheet / the transformers
    query,     \* the arguments of a direct column-resolver call
    out,       \* the value returned by the last operation
    op,        \* the operation that ran last ("init" before any)
    master,    \* the master worksheet: rows 1..max_row of cells A..Q
    backups,   \* the files of <master dir>/backups, by timestamp
    now,       \* the clock, in seconds
    written,   \* the worksheet rows the last operation wrote
    master_exists, \* whether the master file is on disk
    copy,      \* the file at the path write_updated_master_copy returns
    env,       \* the environment variable SHAREPOINT_UPLOAD_FOLDER
    stages,    \* the stages download_files.main has run, in order
    loads,     \* the load_workbook calls the last append made on the destination
    config,    \* the other environment variables download_sharepoint_file reads
    requests,  \* the calls download_sharepoint_file has sent out, in order
    local      \* the file at download_path

vars == <<df, query, out, op, master, backups, now, written,
          master_exists, copy, env, stages, loads, config, requests, local>>

\* the files, environment and run log outside the tables
world == <<master_exists, copy, env, stages, loads, config, requests, local>>

\* the same without the count of loads
surroundings == <<master_exists, copy, env, stages, config, requests, local>>

\* no file at a path
NoFile == [t |-> "nofile"]

\* a file that holds the workbook wb
File(wb) == [t |-> "file", wb |-> wb]

\* an environment variable that is not set
Unset == [t |-> "unset"]

\* the variables download_sharepoint_file reads besides
\* SHAREPOINT_UPLOAD_FOLDER
CONFIG_NAMES == {"TENANT_ID", "CLIENT_ID", "CLIENT_SECRET", "SITE_HOSTNAME",
                 "SITE_PATH"}

\* no variable is set, nothing was sent, nothing is at download_path
InitGraph ==
    /\ config = [k \in CONFIG_NAMES |-> Unset]
    /\ requests = <<>>
    /\ local = NoFile

\* the master is on disk, nothing else has happened yet
InitWorld ==
    /\ master_exists = TRUE
    /\ copy = NoFile
    /\ env = Unset
    /\ stages = <<>>
    /\ loads = 0
    /\ InitGraph

(***************************************************************************)
(* Bounds of the model.                                                    *)
(***************************************************************************)
MaxRows == 2

(***************************************************************************)
(* Python values.                                                          *)
(***************************************************************************)
PyNone == [t |-> "none"]
NaN == [t |-> "nan"]
NaT == [t |-> "nat"]
PyInt(n) == [t |-> "int", n |-> n]
\* a float n + f/10 with n >= 0 and f in 0..9
PyFloat(n, f) == [t |-> "float", n |-> n, f |-> f]
PyStr(s) == [t |-> "str", s |-> s]
PyDate(y, m, d) == [t |-> "date", y |-> y, m |-> m, d |-> d]

(***************************************************************************)
(* Python string operations.                                               *)
(***************************************************************************)
UpperChars == <<"A","B","C","D","E","F","G","H","I","J","K","L","M","N","O","P","Q","R","S","T","U","V","W","X","Y","Z">>
LowerChars == <<"a","b","c","d","e","f","g","h","i","j","k","l","m","n","o","p","q","r","s","t","u","v","w","x","y","z">>
DigitChars == <<"0","1","2","3","4","5","6","7","8","9">>

UpperSet == {UpperChars[i] : i \in 1..26}
LowerSet == {LowerChars[i] : i \in 1..26}
DigitSet == {DigitChars[i] : i \in 1..10}
LowerOf == [c \in UpperSet |-> LowerChars[CHOOSE i \in 1..26 : UpperChars[i] = c]]
ValueOf == [c \in DigitSet |-> (CHOOSE i \in 1..10 : DigitChars[i] = c) - 1]

IsUpper(c) == c \in UpperSet
IsLower(c) == c \in LowerSet
IsDigit(c) == c \in DigitSet
IsSpace(c) == c = " "
DigitVal(c) == ValueOf[c]

lower_char(c) == IF IsUpper(c) THEN LowerOf[c] ELSE c

\* str.lower()
lower(s) == [i \in 1..Len(s) |-> lower_char(s[i])]

\* str.strip()
strip(s) ==
    LET keep == {i \in 1..Len(s) : ~IsSpace(s[i])}
    IN  IF keep = {} THEN <<>>
        ELSE LET a == CHOOSE i \in keep : \A j \in keep : i <= j
                 b == CHOOSE i \in keep : \A j \in keep : j <= i
             IN  SubSeq(s, a, b)

\* str.isdigit()
isdigit(s) == Len(s) > 0 /\ \A i \in 1..Len(s) : IsDigit(s[i])

\* int(s) for a string of decimal digits
RECURSIVE int_of_digits(_)
int_of_digits(s) ==
    IF Len(s) = 0 THEN 0
    ELSE 10 * int_of_digits(SubSeq(s, 1, Len(s) - 1)) + DigitVal(s[Len(s)])

\* re.search(r"(\d+)", s): the leftmost, longest run of digits, <<>> if none
first_digit_run(s) ==
    LET ds == {i \in 1..Len(s) : IsDigit(s[i])}
    IN  IF ds = {} THEN <<>>
        ELSE LET a == CHOOSE i \in ds : \A j \in ds : i <= j
                 b == CHOOSE j \in a..Len(s) :
                        /\ \A k \in a..j : IsDigit(s[k])
                        /\ (j = Len(s) \/ ~IsDigit(s[j + 1]))
             IN  SubSeq(s, a, b)

\* s.endswith(t)
endswith(s, t) ==
    Len(t) <= Len(s) /\ SubSeq(s, Len(s) - Len(t) + 1, Len(s)) = t

\* t in s
contains(s, t) ==
    \E a \in 1..(Len(s) - Len(t) + 1) : SubSeq(s, a, a + Len(t) - 1) = t

\* str(n) for an int n >= 0
RECURSIVE digits_of_int(_)
digits_of_int(n) ==
    IF n < 10 THEN <<DigitChars[n + 1]>>
    ELSE digits_of_int(n \div 10) \o <<DigitChars[(n % 10) + 1]>>

\* str(v), as Series.astype(str) and str() give it
py_str(v) ==
    CASE v.t = "str" -> v.s
      [] v.t = "int" -> digits_of_int(v.n)
      [] v.t = "float" -> digits_of_int(v.n) \o <<".">> \o digits_of_int(v.f)
      [] v.t = "nan" -> <<"n","a","n">>
      [] v.t = "nat" -> <<"N","a","T">>
      [] v.t = "none" -> <<"N","o","n","e">>

(***************************************************************************)
(* Constants of the program.                                               *)
(***************************************************************************)
TARGET_TERMS == {12, 24, 36, 48, 60}

BASE_COLS == <<
    <<"S","t","a","r","t"," ","M","o","n","t","h">>,
    <<"S","t","a","t","e">>,
    <<"U","t","i","l","i","t","y">>,
    <<"C","o","n","g","e","s","t","i","o","n"," ","Z","o","n","e">>,
    <<"L","o","a","d"," ","F","a","c","t","o","r">>,
    <<"T","e","r","m">>,
    <<"P","r","o","d","u","c","t">>,
    <<"0","-","2","0","0",",","0","0","0">> >>

FIXED_PRICE == <<"f","i","x","e","d"," ","p","r","i","c","e">>
PRODUCT_NAMES == {<<"p","r","o","d","u","c","t">>, <<"p","r","o","d","u","c","t","s">>}
TERM_NAMES == {<<"t","e","r","m">>, <<"t","e","r","m","s">>}

(***************************************************************************)
(* Frames.                                                                 *)
(***************************************************************************)
\* the sequence of the elements of a finite set of integers, ascending
RECURSIVE SortedSeq(_)
SortedSeq(S) ==
    IF S = {} THEN <<>>
    ELSE LET m == CHOOSE x \in S : \A y \in S : x <= y
         IN  <<m>> \o SortedSeq(S \ {m})

EmptyFrame(cols) == [columns |-> cols, index |-> <<>>, rows |-> <<>>]

\* position of the first column of frame f whose name satisfies P, 0 if none
FirstCol(f, P(_)) ==
    LET hits == {i \in 1..Len(f.columns) : P(f.columns[i])}
    IN  IF hits = {} THEN 0 ELSE CHOOSE i \in hits : \A j \in hits : i <= j

\* position of the column named name, 0 if none
ColPos(f, name) == FirstCol(f, LAMBDA c : c = name)

(***************************************************************************)
(* parse_term_to_int (excel_processor.py, transformer.py)                  *)
(***************************************************************************)
parse_term_to_int(val) ==
    CASE val.t \in {"nan", "nat", "none"} -> PyNone
      [] val.t = "int" -> PyInt(val.n)
      [] val.t = "float" -> IF val.f = 0 THEN PyInt(val.n) ELSE PyNone
      [] OTHER ->
            LET s == strip(py_str(val))
                m == first_digit_run(s)
            IN  IF isdigit(s) THEN PyInt(int_of_digits(s))
                ELSE IF m # <<>> THEN PyInt(int_of_digits(m))
                ELSE PyNone

\* Series.isin(TARGET_TERMS) for one element
isin_target_terms(v) == v.t = "int" /\ v.n \in TARGET_TERMS

(***************************************************************************)
(* filter_sheet (excel_processor.py, transformer.py)                       *)
(***************************************************************************)
\* prod_mask: astype(str).str.strip().str.lower().eq('fixed price')
prod_mask(v) == lower(strip(py_str(v))) = FIXED_PRICE

\* term_mask: map(parse_term_to_int).isin(TARGET_TERMS)
term_mask(v) == isin_target_terms(parse_term_to_int(v))

\* prod_mask & term_mask
row_mask_or(p, t) == prod_mask(p) \/ term_mask(t)
row_mask(p, t) == prod_mask(p) /\ term_mask(t)

filter_sheet(f) ==
    LET prod_col == FirstCol(f, LAMBDA c : lower(strip(c)) \in PRODUCT_NAMES)
        term_col == FirstCol(f, LAMBDA c : lower(strip(c)) \in TERM_NAMES)
        cols == SelectSeq(BASE_COLS, LAMBDA c : ColPos(f, c) # 0)
        keep == SelectSeq(f.index,
                    LAMBDA i : row_mask(f.rows[i][prod_col], f.rows[i][term_col]))
    IN  IF prod_col = 0 \/ term_col = 0 THEN EmptyFrame(BASE_COLS)
        ELSE [columns |-> cols,
              index |-> keep,
              rows |-> [i \in {keep[k] : k \in 1..Len(keep)} |->
                          [k \in 1..Len(cols) |-> f.rows[i][ColPos(f, cols[k])]]]]


(***************************************************************************)
(* Column resolver: get_col (excel_processor.py), find_column and          *)
(* normalize_column_name (transformer.py)                                  *)
(***************************************************************************)
\* re.sub(r"[^a-z0-9]", "", str(s).strip().lower())
norm(s) == SelectSeq(lower(strip(s)), LAMBDA c : IsLower(c) \/ IsDigit(c))

normalize_column_name(name) == norm(name)

MinOf(S) == CHOOSE x \in S : \A y \in S : x <= y

\* the resolver without the substring pass
get_col_exact_only(columns, candidates, allow_contains) ==
    LET n == Len(columns)
        key == [i \in 1..n |-> norm(columns[i])]
        cand == [c \in 1..Len(candidates) |-> norm(candidates[c])]
        last(k) == CHOOSE i \in 1..n :
                      key[i] = k /\ \A j \in 1..n : key[j] = k => j <= i
        exact == {c \in 1..Len(candidates) : \E i \in 1..n : key[i] = cand[c]}
    IN  IF exact # {} THEN last(cand[MinOf(exact)]) ELSE 0

\* the position of the resolved column, 0 for None.  norm_map is a dict: its
\* keys keep the order of their first insertion, and a key given twice keeps
\* the last column that has it.
get_col(columns, candidates, allow_contains) ==
    LET n == Len(columns)
        key == [i \in 1..n |-> norm(columns[i])]
        cand == [c \in 1..Len(candidates) |-> norm(candidates[c])]
        last(k) == CHOOSE i \in 1..n :
                      key[i] = k /\ \A j \in 1..n : key[j] = k => j <= i
        exact == {c \in 1..Len(candidates) : \E i \in 1..n : key[i] = cand[c]}
        firsts == {i \in 1..n : \A j \in 1..(i - 1) : key[j] # key[i]}
        hits == {i \in firsts :
                      \E c \in 1..Len(candidates) : contains(key[i], cand[c])}
    IN  IF exact # {} THEN last(cand[MinOf(exact)])
        ELSE IF allow_contains /\ hits # {} THEN last(key[MinOf(hits)])
        ELSE 0

find_column(f, candidates, allow_contains) ==
    get_col(f.columns, candidates, allow_contains)

desc_candidates == <<
    <<"M","a","t","r","i","x","D","e","s","c","r","i","p","t","i","o","n">>,
    <<"M","a","t","r","i","x"," ","D","e","s","c","r","i","p","t","i","o","n">>,
    <<"D","e","s","c","r","i","p","t","i","o","n">>,
    <<"D","e","s","c">> >>

price_candidates == <<
    <<"P","r","i","c","e">>,
    <<"P","r","i","c","e"," ","$">>,
    <<"P","r","i","c","e","(","$",")">>,
    <<"M","a","t","r","i","x"," ","P","r","i","c","e">>,
    <<"R","a","t","e">>,
    <<"B","a","s","e"," ","P","r","i","c","e">> >>

green_candidates == <<
    <<"G","r","e","e","n","P","r","i","c","e">>,
    <<"G","r","e","e","n"," ","P","r","i","c","e">> >>

term_candidates == <<
    <<"T","e","r","m","C","o","d","e">>,
    <<"T","e","r","m">>,
    <<"T","e","r","m"," ","M","o","n","t","h","s">>,
    <<"T","e","r","m","_","M","o","n","t","h","s">>,
    <<"T","e","r","m","L","e","n","g","t","h">>,
    <<"T","e","r","m"," ","(","m","o","n","t","h","s",")">> >>

start_candidates == <<
    <<"S","t","a","r","t","D","a","t","e">>,
    <<"S","t","a","r","t"," ","D","a","t","e">>,
    <<"S","t","a","r","t","M","o","n","t","h">>,
    <<"S","t","a","r","t"," ","M","o","n","t","h">>,
    <<"D","e","l","i","v","e","r","y"," ","S","t","a","r","t">>,
    <<"F","i","r","s","t"," ","D","e","l","i","v","e","r","y">>,
    <<"D","e","l","i","v","e","r","y","S","t","a","r","t">> >>

transformer_start_candidates == <<
    <<"S","t","a","r","t","D","a","t","e">>,
    <<"S","t","a","r","t"," ","D","a","t","e">>,
    <<"S","t","a","r","t","M","o","n","t","h">>,
    <<"S","t","a","r","t"," ","M","o","n","t","h">>,
    <<"D","e","l","i","v","e","r","y"," ","S","t","a","r","t">>,
    <<"F","i","r","s","t"," ","D","e","l","i","v","e","r","y">> >>

zone_candidates == <<
    <<"Z","o","n","e">>,
    <<"C","o","n","g","e","s","t","i","o","n"," ","Z","o","n","e">> >>

lf_candidates == <<
    <<"L","o","a","d"," ","F","a","c","t","o","r">>,
    <<"L","o","a","d","F","a","c","t","o","r">>,
    <<"L","F">> >>

product_candidates == <<
    <<"P","r","o","d","u","c","t">>,
    <<"P","r","o","d","u","c","t","s">> >>

LF_TOKENS == <<
    <<" ","L","o","w"," ","L","o","a","d"," ","F","a","c","t","o","r">>,
    <<" ","M","e","d","i","u","m"," ","L","o","a","d"," ","F","a","c","t","o","r">>,
    <<" ","H","i","g","h"," ","L","o","a","d"," ","F","a","c","t","o","r">> >>

LOW_LOAD_FACTOR == <<"L","o","w"," ","L","o","a","d"," ","F","a","c","t","o","r">>
MEDIUM_LOAD_FACTOR == <<"M","e","d","i","u","m"," ","L","o","a","d"," ","F","a","c","t","o","r">>
HIGH_LOAD_FACTOR == <<"H","i","g","h"," ","L","o","a","d"," ","F","a","c","t","o","r">>
HUDSON == <<"H","U","D","S","O","N">>

(***************************************************************************)
(* Input tables of the row filter.                                         *)
(***************************************************************************)
FilterLayouts == {
    <<[name |-> <<"S","t","a","r","t"," ","M","o","n","t","h">>, kind |-> "other"],
      [name |-> <<"T","e","r","m">>, kind |-> "term"],
      [name |-> <<"P","r","o","d","u","c","t">>, kind |-> "product"],
      [name |-> <<"0","-","2","0","0",",","0","0","0">>, kind |-> "other"]>>,
    <<[name |-> <<" ","P","r","o","d","u","c","t","s">>, kind |-> "product"],
      [name |-> <<"N","o","t","e">>, kind |-> "other"],
      [name |-> <<"T","E","R","M","S">>, kind |-> "term"]>>,
    <<[name |-> <<"T","e","r","m">>, kind |-> "term"],
      [name |-> <<"S","t","a","t","e">>, kind |-> "other"]>> }

FilterProducts == {
    PyStr(<<"F","i","x","e","d"," ","P","r","i","c","e">>),
    PyStr(<<" ","f","i","x","e","d"," ","P","R","I","C","E"," ">>),
    PyStr(<<"I","n","d","e","x">>) }

FilterTerms == {
    PyInt(12), PyInt(13), PyFloat(24, 0), PyFloat(36, 5),
    PyStr(<<"6","0"," ","m","o","n","t","h","s">>),
    PyStr(<<"n","/","a">>),
    NaN }

FilterRowSpecs == [product : FilterProducts, term : FilterTerms]

\* the table with the columns of layout and one row per row spec
MkTable(layout, specs) ==
    [columns |-> [k \in 1..Len(layout) |-> layout[k].name],
     index |-> [k \in 1..Len(specs) |-> k - 1],
     rows |-> [i \in 0..(Len(specs) - 1) |->
                 [k \in 1..Len(layout) |->
                     CASE layout[k].kind = "product" -> specs[i + 1].product
                       [] layout[k].kind = "term" -> specs[i + 1].term
                       [] OTHER -> PyInt(i)]]]

SeqsUpTo(S, n) == UNION {[1..k -> S] : k \in 0..n}

NoQuery == [candidates |-> <<>>, allow_contains |-> FALSE]

InitFilter ==
    /\ \E layout \in FilterLayouts, specs \in SeqsUpTo(FilterRowSpecs, MaxRows) :
          df = MkTable(layout, specs)
    /\ query = NoQuery
    /\ out = PyNone
    /\ op = "init"
    /\ master = <<>>
    /\ backups = <<>>
    /\ now = 0
    /\ written = {}
    /\ InitWorld

FilterSheet ==
    /\ op = "init"
    /\ out' = filter_sheet(df)
    /\ op' = "filter_sheet"
    /\ UNCHANGED <<df, query, master, backups, now, written>>
    /\ UNCHANGED world

NextFilter == FilterSheet

SpecFilter == InitFilter /\ [][NextFilter]_vars

(***************************************************************************)
(* Conversions used by the schema mapper.                                  *)
(***************************************************************************)
\* truth value of a Python object, as `text or ''` tests it
py_truthy(v) ==
    CASE v.t = "none" -> FALSE
      [] v.t = "str" -> v.s # <<>>
      [] v.t = "int" -> v.n # 0
      [] v.t = "float" -> v.n # 0 \/ v.f # 0
      [] OTHER -> TRUE

\* float() of the integer part ip and the fractional part fp of a literal
float_of_parts(ip, fp, one_dot, neg) ==
    IF one_dot /\ isdigit(ip) /\ (fp = <<>> \/ isdigit(fp))
    THEN [ok |-> TRUE, neg |-> neg, n |-> int_of_digits(ip),
          f |-> IF fp = <<>> THEN 0 ELSE DigitVal(fp[1])]
    ELSE [ok |-> FALSE, neg |-> FALSE, n |-> 0, f |-> 0]

\* float() of a literal without its sign
float_of_unsigned(body, neg) ==
    LET dots == {i \in 1..Len(body) : body[i] = "."}
    IN  float_of_parts(IF dots = {} THEN body ELSE SubSeq(body, 1, MinOf(dots) - 1),
                       IF dots = {} THEN <<>>
                       ELSE SubSeq(body, MinOf(dots) + 1, Len(body)),
                       Cardinality(dots) <= 1, neg)

float_of_stripped(s) ==
    IF Len(s) > 0 /\ s[1] \in {"+", "-"}
    THEN float_of_unsigned(SubSeq(s, 2, Len(s)), s[1] = "-")
    ELSE float_of_unsigned(s, FALSE)

\* float(s) for a decimal literal [+-]digits[.digits]: [ok, neg, n, f] with
\* n the integer part and f the first fractional digit; ok is FALSE where
\* float() raises ValueError
float_of_str(s0) == float_of_stripped(strip(s0))

\* the float parsed into p, NaN where the parse failed
float_value(p) ==
    IF ~p.ok THEN NaN ELSE PyFloat(IF p.neg THEN 0 - p.n ELSE p.n, p.f)

\* pd.to_numeric(x, errors='coerce') for one element
to_numeric(v) ==
    CASE v.t \in {"int", "float"} -> v
      [] v.t = "str" -> float_value(float_of_str(v.s))
      [] OTHER -> NaN

\* pd.to_datetime(x, errors='coerce').dt.date for one element: a datetime
\* keeps its date; a string in the form YYYY-MM-DD is parsed; anything that
\* does not parse is NaT
to_date(v) ==
    CASE v.t = "datetime" -> PyDate(v.y, v.m, v.d)
      [] v.t = "date" -> v
      [] v.t = "str" ->
            LET s == strip(v.s)
                iso == /\ Len(s) = 10
                       /\ s[5] = "-" /\ s[8] = "-"
                       /\ \A i \in {1, 2, 3, 4, 6, 7, 9, 10} : IsDigit(s[i])
                y == int_of_digits(SubSeq(s, 1, 4))
                m == int_of_digits(SubSeq(s, 6, 7))
                d == int_of_digits(SubSeq(s, 9, 10))
            IN  IF iso /\ m \in 1..12 /\ d \in 1..31 THEN PyDate(y, m, d) ELSE NaT
      [] OTHER -> NaT

\* date.today(): the date of the run
today == PyDate(2026, 11, 4)

(***************************************************************************)
(* Schema mapper: hda_matrix_to_master_cols (excel_processor.py) and       *)
(* transform_to_master_format (transformer.py)                             *)
(***************************************************************************)
MASTER_COLS == <<"ID", "Price_Date", "Date", "Zone", "Load", "REP1", "Term",
                 "Min_MWh", "Max_MWh", "Daily_No_Ruc", "RUC_Nodal", "Daily",
                 "Com_Disc", "HOA_Disc", "Broker_Fee", "Meter_Fee", "Max_Meters">>

parse_zone(text) ==
    LET s == strip(IF py_truthy(text) THEN py_str(text) ELSE <<>>)
        hit == {k \in 1..Len(LF_TOKENS) : endswith(s, LF_TOKENS[k])}
    IN  IF hit = {} THEN PyStr(s)
        ELSE PyStr(SubSeq(s, 1, Len(s) - Len(LF_TOKENS[MinOf(hit)])))

parse_zone_from_description(text) == parse_zone(text)

\* a parse_lf that tests the suffix, as parse_zone does
parse_lf_suffix(text) ==
    LET s == strip(IF py_truthy(text) THEN py_str(text) ELSE <<>>)
    IN  IF endswith(s, LF_TOKENS[1]) THEN PyStr(<<"L","O","W">>)
        ELSE IF endswith(s, LF_TOKENS[2]) THEN PyStr(<<"M","E","D">>)
        ELSE IF endswith(s, LF_TOKENS[3]) THEN PyStr(<<"H","I","G","H">>)
        ELSE PyStr(<<>>)

parse_lf(text) ==
    LET s == strip(IF py_truthy(text) THEN py_str(text) ELSE <<>>)
    IN  IF contains(s, LOW_LOAD_FACTOR) THEN PyStr(<<"L","O","W">>)
        ELSE IF contains(s, MEDIUM_LOAD_FACTOR) THEN PyStr(<<"M","E","D">>)
        ELSE IF contains(s, HIGH_LOAD_FACTOR) THEN PyStr(<<"H","I","G","H">>)
        ELSE PyStr(<<>>)

parse_load_factor_from_description(text) == parse_lf(text)

\* iv if iv in TARGET_TERMS else None
target_term(iv) == IF iv.t = "int" /\ iv.n \in TARGET_TERMS THEN iv ELSE PyNone

\* int(m.group(1)) for the match m of re.search(r"(\d+)", str(v)), None
\* without a match
int_of_match(m) == IF m # <<>> THEN PyInt(int_of_digits(m)) ELSE PyNone

\* int(float(v)) for a string v parsed into p, and the regex on an exception
int_of_float(p, v) ==
    IF p.ok THEN PyInt(IF p.neg THEN 0 - p.n ELSE p.n)
    ELSE int_of_match(first_digit_run(py_str(v)))

\* int(float(v)), and on an exception the first run of digits of str(v);
\* None unless the result is one of TARGET_TERMS
term_to_int(v) ==
    target_term(CASE v.t \in {"int", "float"} -> PyInt(v.n)
                  [] v.t = "str" -> int_of_float(float_of_str(v.s), v)
                  [] OTHER -> int_of_match(first_digit_run(py_str(v))))

\* pd.DataFrame(index=range(n), columns=cols)
NewFrame(n, cols) ==
    [columns |-> cols,
     index |-> [k \in 1..n |-> k - 1],
     rows |-> [i \in 0..(n - 1) |-> [k \in 1..Len(cols) |-> NaN]]]

Labels(fr) == {fr.index[k] : k \in 1..Len(fr.index)}

\* fr[name] = vals that adds a column at the end even where one of that name
\* exists
set_column_append(fr, name, vals) ==
    [fr EXCEPT !.columns = Append(fr.columns, name),
               !.rows = [i \in Labels(fr) |-> Append(fr.rows[i], vals[i])]]

\* fr[name] = vals: the column is replaced where it exists and added at the
\* end where it does not
set_column(fr, name, vals) ==
    LET p == ColPos(fr, name)
    IN  IF p # 0
        THEN [fr EXCEPT !.rows = [i \in Labels(fr) |-> [fr.rows[i] EXCEPT ![p] = vals[i]]]]
        ELSE [fr EXCEPT !.columns = Append(fr.columns, name),
                        !.rows = [i \in Labels(fr) |-> Append(fr.rows[i], vals[i])]]

\* the value fr[name] takes from a scalar
scalar(fr, v) == [i \in Labels(fr) |-> v]

\* the value fr[name] takes from a Series: pandas aligns the Series on the
\* index labels of fr, and a label the Series lacks gets NaN
align(fr, series) ==
    [i \in Labels(fr) |-> IF i \in DOMAIN series THEN series[i] ELSE NaN]

\* work_df[c] for the rows of work, a sequence of index labels of f
column_of(f, work, c) == [i \in {work[k] : k \in 1..Len(work)} |-> f.rows[i][c]]

\* Series.map(F)
map_series(s, F(_)) == [i \in DOMAIN s |-> F(s[i])]

\* work_df = df[mask_fp] where a product column exists: the index labels kept
work_rows(f, c_prod) ==
    IF c_prod = 0 THEN f.index
    ELSE SelectSeq(f.index, LAMBDA i : prod_mask(f.rows[i][c_prod]))

\* the Date column taken from today instead of the start date
start_dates_today(f, work, c_start) ==
    map_series(column_of(f, work, c_start), LAMBDA v : today)

\* start_dates.dt.date
start_dates(f, work, c_start) ==
    map_series(column_of(f, work, c_start), to_date)

\* the Zone and Load series
zone_series(f, work, c_desc, c_zone) ==
    IF c_desc # 0 THEN map_series(column_of(f, work, c_desc), parse_zone)
    ELSE IF c_zone # 0
         THEN map_series(column_of(f, work, c_zone), LAMBDA v : PyStr(py_str(v)))
         ELSE [i \in {work[k] : k \in 1..Len(work)} |-> PyStr(<<>>)]

load_series(f, work, c_desc, c_lf) ==
    IF c_desc # 0 THEN map_series(column_of(f, work, c_desc), parse_lf)
    ELSE IF c_lf # 0
         THEN map_series(column_of(f, work, c_lf), LAMBDA v : PyStr(py_str(v)))
         ELSE [i \in {work[k] : k \in 1..Len(work)} |-> PyStr(<<>>)]

\* the price series p, or the green price when every price is NaN
price_or_green(p, f, work, c_green) ==
    IF (\A i \in DOMAIN p : p[i].t = "nan") /\ c_green # 0
    THEN map_series(column_of(f, work, c_green), to_numeric)
    ELSE p

\* price_series, with the fall-back to the green price when every price is NaN
price_series(f, work, c_price, c_green) ==
    price_or_green(IF c_price # 0
                   THEN map_series(column_of(f, work, c_price), to_numeric)
                   ELSE <<>>,
                   f, work, c_green)

\* out[out['Term'].notna()]
keep_valid_terms(fr) ==
    LET t == ColPos(fr, "Term")
        keep == SelectSeq(fr.index, LAMBDA i : fr.rows[i][t].t \notin {"none", "nan"})
    IN  [columns |-> fr.columns,
         index |-> keep,
         rows |-> [i \in {keep[k] : k \in 1..Len(keep)} |-> fr.rows[i]]]

\* out[name] = v for a scalar v
assign_scalar(fr, name, v) == set_column(fr, name, scalar(fr, v))

\* out[name] = series
assign_series(fr, name, series) == set_column(fr, name, align(fr, series))

\* one column assignment: a scalar, or a Series aligned on the index
assign(fr, x) ==
    IF x.scalar THEN assign_scalar(fr, x.name, x.v) ELSE assign_series(fr, x.name, x.v)

\* the column assignments xs made to fr one after the other (the test of
\* fr.columns has TLC evaluate fr before it goes on to the next assignment)
RECURSIVE assign_columns(_, _)
assign_columns(fr, xs) ==
    IF Len(xs) = 0 \/ Len(fr.columns) = 0 THEN fr
    ELSE assign_columns(assign(fr, Head(xs)), Tail(xs))

\* the column assignments of the mapper, in the order of the code
column_assignments(f, c, work) == <<
    [name |-> "ID", scalar |-> TRUE, v |-> PyNone],
    [name |-> "Price_Date", scalar |-> TRUE, v |-> today],
    [name |-> "Date", scalar |-> FALSE, v |-> start_dates(f, work, c.start)],
    [name |-> "Zone", scalar |-> FALSE, v |-> zone_series(f, work, c.desc, c.zone)],
    [name |-> "Load", scalar |-> FALSE, v |-> load_series(f, work, c.desc, c.lf)],
    [name |-> "REP1", scalar |-> TRUE, v |-> PyStr(HUDSON)],
    [name |-> "Term", scalar |-> FALSE,
     v |-> map_series(column_of(f, work, c.term), term_to_int)],
    [name |-> "Min_MWh", scalar |-> TRUE, v |-> PyInt(0)],
    [name |-> "Max_MWh", scalar |-> TRUE, v |-> PyInt(1000)],
    [name |-> "Daily_No_Ruc", scalar |-> FALSE,
     v |-> price_series(f, work, c.price, c.green)],
    [name |-> "RUC_Nodal", scalar |-> TRUE, v |-> PyInt(0)],
    [name |-> "Daily", scalar |-> FALSE,
     v |-> price_series(f, work, c.price, c.green)],
    [name |-> "Com_Disc", scalar |-> TRUE, v |-> PyInt(0)],
    [name |-> "HOA_Disc", scalar |-> TRUE, v |-> PyInt(0)],
    [name |-> "Broker_Fee", scalar |-> TRUE, v |-> PyInt(0)],
    [name |-> "Meter_Fee", scalar |-> TRUE, v |-> PyInt(0)],
    [name |-> "Max_Meters", scalar |-> TRUE, v |-> PyInt(5)] >>

\* the master frame built from the rows work of f, for the resolved columns c
\* (position 0: None)
map_rows(f, c, work) ==
    IF Len(work) = 0 THEN EmptyFrame(MASTER_COLS)
    ELSE keep_valid_terms(assign_columns(NewFrame(Len(work), MASTER_COLS),
                                         column_assignments(f, c, work)))

\* the body of the mapper once the columns are resolved into c
to_master(f, c) ==
    IF (c.price = 0 /\ c.green = 0) \/ c.term = 0 \/ c.start = 0
    THEN EmptyFrame(MASTER_COLS)
    ELSE IF c.desc = 0 /\ (c.zone = 0 /\ c.lf = 0)
    THEN EmptyFrame(MASTER_COLS)
    ELSE map_rows(f, c, work_rows(f, c.prod))

\* the columns resolved for each logical field (position 0: None)
resolved(columns, starts) ==
    [desc |-> get_col(columns, desc_candidates, TRUE),
     price |-> get_col(columns, price_candidates, TRUE),
     green |-> get_col(columns, green_candidates, TRUE),
     term |-> get_col(columns, term_candidates, TRUE),
     start |-> get_col(columns, starts, TRUE),
     zone |-> get_col(columns, zone_candidates, TRUE),
     lf |-> get_col(columns, lf_candidates, TRUE),
     prod |-> get_col(columns, product_candidates, TRUE)]

\* The header rows of the input tables of the model, and the columns resolved
\* for them: resolved() depends on the header row alone, so it is evaluated
\* once per header row and looked up for each table.
TransformLayouts == {
    <<[name |-> <<"M","a","t","r","i","x","D","e","s","c","r","i","p","t","i","o","n">>, kind |-> "desc"],
      [name |-> <<"P","r","i","c","e">>, kind |-> "price"],
      [name |-> <<"T","e","r","m","C","o","d","e">>, kind |-> "term"],
      [name |-> <<"S","t","a","r","t","D","a","t","e">>, kind |-> "start"],
      [name |-> <<"P","r","o","d","u","c","t">>, kind |-> "product"]>>,
    <<[name |-> <<"M","a","t","r","i","x"," ","D","e","s","c","r","i","p","t","i","o","n">>, kind |-> "desc"],
      [name |-> <<"P","r","i","c","e"," ","$">>, kind |-> "price"],
      [name |-> <<"T","e","r","m"," ","(","m","o","n","t","h","s",")">>, kind |-> "term"],
      [name |-> <<"S","t","a","r","t"," ","D","a","t","e">>, kind |-> "start"]>>,
    <<[name |-> <<"P","r","o","d","u","c","t">>, kind |-> "product"],
      [name |-> <<"M","a","t","r","i","x","D","e","s","c","r","i","p","t","i","o","n">>, kind |-> "desc"],
      [name |-> <<"P","r","i","c","e">>, kind |-> "price"]>>,
    <<[name |-> <<"Z","o","n","e">>, kind |-> "zone"],
      [name |-> <<"L","o","a","d"," ","F","a","c","t","o","r">>, kind |-> "lf"],
      [name |-> <<"R","a","t","e">>, kind |-> "price"],
      [name |-> <<"T","e","r","m">>, kind |-> "term"],
      [name |-> <<"S","t","a","r","t"," ","M","o","n","t","h">>, kind |-> "start"],
      [name |-> <<"P","r","o","d","u","c","t","s">>, kind |-> "product"]>>,
    <<[name |-> <<"M","a","t","r","i","x","D","e","s","c","r","i","p","t","i","o","n">>, kind |-> "desc"],
      [name |-> <<"P","r","i","c","e">>, kind |-> "price"],
      [name |-> <<"T","e","r","m","C","o","d","e">>, kind |-> "term"],
      [name |-> <<"D","e","l","i","v","e","r","y","S","t","a","r","t">>, kind |-> "start"]>> }

TransformHeaders == {[k \in 1..Len(l) |-> l[k].name] : l \in TransformLayouts}

ResolvedHeaders ==
    [h \in TransformHeaders |->
        [s \in {start_candidates, transformer_start_candidates} |-> resolved(h, s)]]

resolve_columns(columns, starts) ==
    IF columns \in TransformHeaders THEN ResolvedHeaders[columns][starts]
    ELSE resolved(columns, starts)

hda_matrix_to_master_cols(f) ==
    to_master(f, resolve_columns(f.columns, start_candidates))

\* the mapper of transformer.py with the start column looked up by the
\* candidate names as written, without normalize_column_name
literal_col(columns, candidates) ==
    LET hits == {i \in 1..Len(columns) :
                    \E k \in 1..Len(candidates) : columns[i] = candidates[k]}
    IN  IF hits = {} THEN 0 ELSE CHOOSE i \in hits : \A j \in hits : i <= j

transform_literal_start(f) ==
    to_master(f, [resolve_columns(f.columns, transformer_start_candidates)
                    EXCEPT !.start = literal_col(f.columns,
                                                 transformer_start_candidates)])

transform_to_master_format(f) ==
    to_master(f, resolve_columns(f.columns, transformer_start_candidates))

(***************************************************************************)
(* Input tables of the schema mapper.                                      *)
(***************************************************************************)
TransformProducts == {
    PyStr(<<"F","i","x","e","d"," ","P","r","i","c","e">>),
    PyStr(<<"I","n","d","e","x">>) }

TransformBundles == {
    [term |-> PyInt(12),
     desc |-> PyStr(<<"H","O","U","S","T","O","N"," ","H","i","g","h"," ","L","o","a","d"," ","F","a","c","t","o","r">>),
     start |-> PyStr(<<"2","0","2","4","-","0","3","-","0","1">>),
     price |-> PyFloat(75, 5),
     zone |-> PyStr(<<"H","O","U","S","T","O","N">>),
     lf |-> PyStr(<<"H","i","g","h">>)],
    [term |-> PyInt(13),
     desc |-> PyStr(<<"N","O","R","T","H"," ","L","o","w"," ","L","o","a","d"," ","F","a","c","t","o","r">>),
     start |-> PyStr(<<"2","0","2","4","-","0","6","-","0","1">>),
     price |-> PyInt(80),
     zone |-> PyStr(<<"N","O","R","T","H">>),
     lf |-> PyStr(<<"L","o","w">>)],
    [term |-> PyStr(<<"6","0"," ","m","o","n","t","h","s">>),
     desc |-> PyStr(<<"S","O","U","T","H"," ","M","e","d","i","u","m"," ","L","o","a","d"," ","F","a","c","t","o","r">>),
     start |-> [t |-> "datetime", y |-> 2024, m |-> 9, d |-> 1, h |-> 6],
     price |-> PyStr(<<"7","2",".","3">>),
     zone |-> PyStr(<<"S","O","U","T","H">>),
     lf |-> PyStr(<<"M","e","d","i","u","m">>)],
    [term |-> PyInt(12),
     desc |-> PyStr(<<"S","o","m","e"," ","o","t","h","e","r"," ","t","e","x","t">>),
     start |-> PyStr(<<"T","B","D">>),
     price |-> NaN,
     zone |-> PyStr(<<"W","E","S","T">>),
     lf |-> PyStr(<<>>)],
    [term |-> PyInt(24),
     desc |-> PyStr(<<"W","E","S","T"," ","H","i","g","h"," ","L","o","a","d"," ","F","a","c","t","o","r"," ","(","w","a","s"," ","L","o","w"," ","L","o","a","d"," ","F","a","c","t","o","r",")">>),
     start |-> PyStr(<<"2","0","2","5","-","0","1","-","0","1">>),
     price |-> PyInt(64),
     zone |-> PyStr(<<"W","E","S","T">>),
     lf |-> PyStr(<<"H","i","g","h">>)] }

TransformRowSpecs ==
    {[product |-> p, term |-> b.term, desc |-> b.desc, start |-> b.start,
      price |-> b.price, zone |-> b.zone, lf |-> b.lf] :
        p \in TransformProducts, b \in TransformBundles}

\* the table with the columns of layout and one row per row spec
MkMatrixTable(layout, specs) ==
    [columns |-> [k \in 1..Len(layout) |-> layout[k].name],
     index |-> [k \in 1..Len(specs) |-> k - 1],
     rows |-> [i \in 0..(Len(specs) - 1) |->
                 [k \in 1..Len(layout) |-> specs[i + 1][layout[k].kind]]]]

InitTransform ==
    /\ \E layout \in TransformLayouts, specs \in SeqsUpTo(TransformRowSpecs, MaxRows) :
          df = MkMatrixTable(layout, specs)
    /\ query = NoQuery
    /\ out = PyNone
    /\ op = "init"
    /\ master = <<>>
    /\ backups = <<>>
    /\ now = 0
    /\ written = {}
    /\ InitWorld

HdaMatrixToMasterCols ==
    /\ op = "init"
    /\ out' = hda_matrix_to_master_cols(df)
    /\ op' = "hda_matrix_to_master_cols"
    /\ UNCHANGED <<df, query, master, backups, now, written>>
    /\ UNCHANGED world

TransformToMasterFormat ==
    /\ op = "init"
    /\ out' = transform_to_master_format(df)
    /\ op' = "transform_to_master_format"
    /\ UNCHANGED <<df, query, master, backups, now, written>>
    /\ UNCHANGED world

NextTransform == HdaMatrixToMasterCols \/ TransformToMasterFormat

SpecTransform == InitTransform /\ [][NextTransform]_vars

(***************************************************************************)
(* The column resolver on its own: every candidate list of the two         *)
(* mappers against a header row, with and without the substring pass.      *)
(***************************************************************************)
ResolverHeaders ==
    TransformHeaders \cup {
        <<<<"T","e","r","m">>, <<"T","E","R","M"," ">>>>,
        <<<<"C","o","n","t","r","a","c","t"," ","S","t","a","r","t"," ","D","a","t","e">>, <<"P","r","i","c","e"," ","(","$","/","M","W","h",")">>>>,
        <<<<"S","t","a","t","e">>>>,
        <<<<"P","r","i","c","i","n","g"," ","Z","o","n","e">>, <<"L","F"," ","C","o","d","e">>, <<"%"," ","P","r","o","d","u","c","t","s">>>>}

ResolverCandidates ==
    {desc_candidates, price_candidates, green_candidates, term_candidates,
     start_candidates, transformer_start_candidates, zone_candidates,
     lf_candidates, product_candidates}

\* what the resolver returns: the column's name, or None
column_name(columns, p) == IF p = 0 THEN PyNone ELSE PyStr(columns[p])

InitResolver ==
    /\ \E h \in ResolverHeaders : df = EmptyFrame(h)
    /\ \E c \in ResolverCandidates, b \in BOOLEAN :
          query = [candidates |-> c, allow_contains |-> b]
    /\ out = PyNone
    /\ op = "init"
    /\ master = <<>>
    /\ backups = <<>>
    /\ now = 0
    /\ written = {}
    /\ InitWorld

FindColumn ==
    /\ op = "init"
    /\ out' = column_name(df.columns,
                          find_column(df, query.candidates, query.allow_contains))
    /\ op' = "find_column"
    /\ UNCHANGED <<df, query, master, backups, now, written>>
    /\ UNCHANGED world

GetCol ==
    /\ op = "init"
    /\ out' = column_name(df.columns,
                          get_col(df.columns, query.candidates, query.allow_contains))
    /\ op' = "get_col"
    /\ UNCHANGED <<df, query, master, backups, now, written>>
    /\ UNCHANGED world

NextResolver == FindColumn \/ GetCol

SpecResolver == InitResolver /\ [][NextResolver]_vars

(***************************************************************************)
(* Worksheets as openpyxl presents them.  A worksheet is the sequence of   *)
(* its rows 1..max_row; a row has the cells of columns A..Q; a cell has a   *)
(* value, a number format and a horizontal alignment.                      *)
(***************************************************************************)
NCOLS == 17

BlankCell == [v |-> PyNone, fmt |-> "General", al |-> "general"]

BlankRow == [c \in 1..NCOLS |-> BlankCell]

\* ws.max_row
max_row(ws) == IF Len(ws) = 0 THEN 1 ELSE Len(ws)

\* v in (None, '')
is_blank(v) == v = PyNone \/ v = PyStr(<<>>)

\* ws.cell(row=r, ...) creates the cells of row r where the sheet ends before it
grow(ws, r) ==
    IF r <= Len(ws) THEN ws
    ELSE ws \o [k \in 1..(r - Len(ws)) |-> BlankRow]

\* ws.cell(row=r, column=c).value
cell_value(ws, r, c) == IF r \in 1..Len(ws) THEN ws[r][c].v ELSE PyNone

\* openpyxl.styles.numbers.is_date_format, on the formats that occur
is_date_format(fmt) ==
    fmt \in {"mm-dd-yy", "m/dd/yyyy", "yyyy-mm-dd", "yyyy-mm-dd h:mm:ss"}

\* the format openpyxl gives a cell that receives a date or a datetime while
\* its number format is not a date format
time_format(v) == IF v.t = "datetime" THEN "yyyy-mm-dd h:mm:ss" ELSE "yyyy-mm-dd"

\* cell.value = v as ws.cell(..., value=v) does it: None leaves the cell's
\* value alone; a date or datetime changes a number format that is not a date
\* format
bind_value(cell, v) ==
    IF v = PyNone THEN cell
    ELSE [v |-> v,
          fmt |-> IF v.t \in {"date", "datetime"} /\ ~is_date_format(cell.fmt)
                  THEN time_format(v) ELSE cell.fmt,
          al |-> cell.al]

\* ws.cell(row=r, column=c, value=v)
set_cell(ws, r, c, v) ==
    LET g == grow(ws, r)
    IN  [g EXCEPT ![r][c] = bind_value(@, v)]

\* cell.number_format = fmt
set_format(ws, r, c, fmt) == [ws EXCEPT ![r][c].fmt = fmt]

\* ws.cell(row=r, column=c0 + k, value=vals[k + 1]) for each k
write_cells(ws, r, c0, vals) ==
    LET g == grow(ws, r)
    IN  [g EXCEPT ![r] =
            [c \in 1..NCOLS |->
                IF c >= c0 /\ c < c0 + Len(vals)
                THEN bind_value(g[r][c], vals[c - c0 + 1])
                ELSE g[r][c]]]

(***************************************************************************)
(* Append engine (excel_processor.py)                                      *)
(***************************************************************************)
MASTER_HEADERS == <<"Price_Date", "Date", "Zone", "Load", "REP1", "Term",
                    "Min_MWh", "Max_MWh", "Daily_No_Ruc", "RUC_Nodal", "Daily",
                    "Com_Disc", "HOA_Disc", "Broker_Fee", "Meter_Fee", "Max_Meters">>

MASTER_FORMATS == <<
    "General",
    "mm-dd-yy",
    "mm-dd-yy",
    "General",
    "General",
    "General",
    "* #,##0;* (#,##0);* -00",
    "* #,##0;* (#,##0);* -00",
    "General",
    "$#,##0.00;($#,##0.00)",
    "$#,##0.00",
    "$#,##0.00",
    "$* #,##0.00;$* (#,##0.00);$* -00",
    "$* #,##0.00;$* (#,##0.00);$* -00",
    "$#,##0.00",
    "$* #,##0.00;$* (#,##0.00);$* -00",
    "#,##0" >>

\* isinstance(v, (int, float)) with an int(v) that does not raise
is_number(v) == v.t \in {"int", "float"}

\* int(v) of a number
int_of(v) == v.n

MaxOf(S) == CHOOSE x \in S : \A y \in S : x >= y

last_data_row(ws, scan_cols) ==
    LET cols == 1..(IF scan_cols < NCOLS THEN scan_cols ELSE NCOLS)
        used == {r \in 1..Len(ws) : \E c \in cols : ~is_blank(ws[r][c].v)}
    IN  IF used = {} THEN 0 ELSE MaxOf(used)

find_first_blank_row(ws) ==
    LET blank == {r \in 2..max_row(ws) : is_blank(cell_value(ws, r, 1))}
    IN  IF blank = {} THEN max_row(ws) + 1 ELSE MinOf(blank)

\* the ID of the last row of the sheet, 0 where it has none
last_id(ws) ==
    LET v == cell_value(ws, max_row(ws), 1)
    IN  IF max_row(ws) >= 2 /\ is_number(v) THEN int_of(v) ELSE 0

\* the largest number in column A from row 2 on, 0 where there is none
max_id(ws) ==
    LET ids == {int_of(cell_value(ws, r, 1)) :
                   r \in {q \in 2..max_row(ws) : is_number(cell_value(ws, q, 1))}}
    IN  IF \E i \in ids : i > 0 THEN MaxOf(ids) ELSE 0

get_next_id(ws) == max_id(ws) + 1

apply_master_formats(ws_dst, row_idx) ==
    LET g == grow(ws_dst, row_idx)
    IN  [g EXCEPT ![row_idx] =
            [c \in 1..NCOLS |->
                [v |-> g[row_idx][c].v,
                 fmt |-> MASTER_FORMATS[c],
                 al |-> IF c = 6 THEN "right" ELSE g[row_idx][c].al]]]

\* one appended row: the ID in column A, the master formats, then the values
\* of columns B..Q
write_row(ws, r, id, vals) ==
    write_cells(apply_master_formats(set_cell(ws, r, 1, PyInt(id)), r), r, 2, vals)

\* the rows of one append, from row r and ID id on
RECURSIVE write_rows(_, _, _, _)
write_rows(ws, r, id, rows) ==
    IF Len(rows) = 0 THEN ws
    ELSE write_rows(write_row(ws, r, id, rows[1]), r + 1, id + 1, Tail(rows))

\* x * 100 of a pandas column
times100(v) ==
    CASE v.t = "int" -> PyInt(v.n * 100)
      [] v.t = "float" -> PyFloat(v.n * 100 + v.f * 10, 0)
      [] OTHER -> v

\* a frame with the given columns and rows, indexed 0..n-1
MkFrame(cols, rows) ==
    [columns |-> cols,
     index |-> [k \in 1..Len(rows) |-> k - 1],
     rows |-> [i \in 0..(Len(rows) - 1) |-> rows[i + 1]]]

\* the rows of a frame in index order, as itertuples(index=False) gives them
itertuples(f) == [k \in 1..Len(f.index) |-> f.rows[f.index[k]]]

\* the values a() writes to B..Q for one row of master_df
a_values(f, row) ==
    [h \in 1..Len(MASTER_HEADERS) |->
        LET p == ColPos(f, MASTER_HEADERS[h])
        IN  IF p = 0 THEN PyNone
            ELSE IF MASTER_HEADERS[h] \in {"Daily_No_Ruc", "Daily"} THEN times100(row[p])
            ELSE row[p]]

\* the worksheet a() saves
a(ws_dst, master_df) ==
    LET rows == itertuples(master_df)
    IN  write_rows(ws_dst, find_first_blank_row(ws_dst), get_next_id(ws_dst),
                   [k \in 1..Len(rows) |-> a_values(master_df, rows[k])])

append_master_formatted_dataframe_to_master(ws_dst, master_df) == a(ws_dst, master_df)

\* col_mapping of append_filtered_dataframe_to_master: for each column of
\* B..Q the position in BASE_COLS it is written from, 0 for none
col_mapping == <<0, 1, 4, 5, 3, 6, 0, 0, 0, 0, 0, 0, 0, 0, 0, 0>>

filtered_values(row) ==
    [h \in 1..Len(col_mapping) |->
        IF col_mapping[h] # 0 /\ col_mapping[h] <= Len(row)
        THEN row[col_mapping[h]] ELSE PyNone]

\* the worksheet append_filtered_dataframe_to_master saves
append_filtered_dataframe_to_master(ws_dst, combined_df) ==
    LET rows == itertuples(combined_df)
    IN  write_rows(ws_dst, find_first_blank_row(ws_dst), max_id(ws_dst) + 1,
                   [k \in 1..Len(rows) |-> filtered_values(rows[k])])

(***************************************************************************)
(* append_from_template and its helpers                                    *)
(***************************************************************************)
MAX_SCAN_ROWS == 30

SOURCE_SYNONYMS == <<
    <<<<"p","r","i","c","e","_","d","a","t","e">>, "Price_Date">>,
    <<<<"d","a","t","e">>, "Date">>,
    <<<<"z","o","n","e">>, "Zone">>,
    <<<<"r","e","p","1">>, "REP1">>,
    <<<<"l","o","a","d">>, "Load">>,
    <<<<"t","e","r","m">>, "Term">>,
    <<<<"m","i","n","_","m","w","h">>, "Min_MWh">>,
    <<<<"m","a","x","_","m","w","h">>, "Max_MWh">>,
    <<<<"d","a","i","l","y","_","n","o","_","r","u","c">>, "Daily_No_Ruc">>,
    <<<<"r","u","c","_","n","o","d","a","l">>, "RUC_Nodal">>,
    <<<<"r","u","c","_","n","o","d","a","l","_">>, "RUC_Nodal">>,
    <<<<"r","u","c","_","n","o","d","a","l","_","_">>, "RUC_Nodal">>,
    <<<<"d","a","i","l","y">>, "Daily">>,
    <<<<"c","o","m","_","d","i","s","c">>, "Com_Disc">>,
    <<<<"h","o","a","_","d","i","s","c">>, "HOA_Disc">>,
    <<<<"b","r","o","k","e","r","_","f","e","e">>, "Broker_Fee">>,
    <<<<"m","e","t","e","r","_","f","e","e">>, "Meter_Fee">>,
    <<<<"m","a","x","_","m","e","t","e","r","s">>, "Max_Meters">> >>


\* v.strip().lower().replace(' ', '_')
header_key(s) ==
    LET t == lower(strip(s))
    IN  [i \in 1..Len(t) |-> IF t[i] = " " THEN "_" ELSE t[i]]

\* the keys of a row of a template sheet: None for a cell that is no string
header_keys(ws, r) ==
    [c \in 1..Len(ws[r]) |->
        IF ws[r][c].t = "str" THEN PyStr(header_key(ws[r][c].s)) ELSE PyNone]


detect_header_row(ws) ==
    LET has(r, k) == \E c \in 1..Len(ws[r]) : header_keys(ws, r)[c] = k
        hits == {r \in 1..(IF Len(ws) < MAX_SCAN_ROWS THEN Len(ws) ELSE MAX_SCAN_ROWS) :
                    /\ has(r, PyStr(<<"p","r","i","c","e","_","d","a","t","e">>))
                    /\ has(r, PyStr(<<"z","o","n","e">>)) \/ has(r, PyStr(<<"l","o","a","d">>))
                    /\ has(r, PyStr(<<"d","a","i","l","y">>)) \/ has(r, PyStr(<<"d","a","i","l","y","_","n","o","_","r","u","c">>))}
    IN  IF hits = {} THEN 1 ELSE MinOf(hits)

\* the master header a template header stands for, "" for none
synonym(key) ==
    LET hit == {i \in 1..Len(SOURCE_SYNONYMS) : PyStr(SOURCE_SYNONYMS[i][1]) = key}
    IN  IF hit = {} THEN "" ELSE SOURCE_SYNONYMS[MinOf(hit)][2]

\* for each master header the first template column that stands for it, 0
\* where the template has none
build_source_mapping(ws, header_row) ==
    LET keys == header_keys(ws, header_row)
        cols(h) == {c \in 1..Len(keys) : synonym(keys[c]) = MASTER_HEADERS[h]}
    IN  [h \in 1..Len(MASTER_HEADERS) |-> IF cols(h) = {} THEN 0 ELSE MinOf(cols(h))]

\* v.strip() of a string cell
stripped(v) == IF v.t = "str" THEN PyStr(strip(v.s)) ELSE v

\* the rows append_from_template takes from the template: those below the
\* header that hold a value in a mapped column
template_rows(ws, header_row, src_map) ==
    LET vals(r) == [h \in 1..Len(MASTER_HEADERS) |-> stripped(ws[r][src_map[h]])]
        rs == SelectSeq([k \in 1..(Len(ws) - header_row) |-> header_row + k],
                        LAMBDA r : \E h \in 1..Len(MASTER_HEADERS) : ~is_blank(vals(r)[h]))
    IN  [k \in 1..Len(rs) |-> vals(rs[k])]

\* what append_from_template reads from the template sheet: the master
\* headers it does not find, and the rows to append
read_template(ws_src) ==
    LET header_row == detect_header_row(ws_src)
        src_map == build_source_mapping(ws_src, header_row)
        missing == {h \in 1..Len(MASTER_HEADERS) : src_map[h] = 0}
    IN  [missing |-> missing,
         rows |-> IF missing = {} THEN template_rows(ws_src, header_row, src_map)
                  ELSE <<>>]

\* The bounds of the append engine's runs.
MaxAppendRows == 2

MaxSheetRows == 4

MaxTime == 1

\* the values of columns B..Q of two rows in the master layout

MasterValues1 == <<
    today,
    PyDate(2024, 3, 1),
    PyStr(<<"H","O","U","S","T","O","N">>),
    PyStr(<<"H","I","G","H">>),
    PyStr(<<"H","U","D","S","O","N">>),
    PyInt(12),
    PyInt(0),
    PyInt(1000),
    PyFloat(75, 5),
    PyInt(0),
    PyFloat(75, 5),
    PyInt(0),
    PyInt(0),
    PyInt(0),
    PyInt(0),
    PyInt(5) >>

MasterValues2 == <<
    today,
    PyDate(2024, 6, 1),
    PyStr(<<"N","O","R","T","H">>),
    PyStr(<<>>),
    PyStr(<<"H","U","D","S","O","N">>),
    PyInt(24),
    PyInt(0),
    PyInt(1000),
    PyInt(64),
    PyInt(0),
    PyInt(64),
    PyInt(0),
    PyInt(0),
    PyInt(0),
    PyInt(0),
    PyInt(5) >>

TemplateValues1 == <<
    today,
    PyDate(2024, 3, 1),
    PyStr(<<" ","H","O","U","S","T","O","N"," ">>),
    PyStr(<<"H","I","G","H">>),
    PyStr(<<"H","U","D","S","O","N">>),
    PyInt(12),
    PyInt(0),
    PyInt(1000),
    PyFloat(75, 5),
    PyInt(0),
    PyFloat(75, 5),
    PyInt(0),
    PyInt(0),
    PyInt(0),
    PyInt(0),
    PyInt(5) >>

BlankValues == [h \in 1..Len(MASTER_HEADERS) |-> PyNone]

\* template sheets: the header row of the master; a title row, then headers
\* spelled with spaces, in another order and with columns the master does not
\* have, and an empty row above each data row; a header row that lacks
\* Max_Meters.  perm gives, for each template column, the master column its
\* values belong to (0: none)
TemplateLayouts == {
    [title |-> FALSE,
     header |-> <<
            <<"P","r","i","c","e","_","D","a","t","e">>,
            <<"D","a","t","e">>,
            <<"Z","o","n","e">>,
            <<"L","o","a","d">>,
            <<"R","E","P","1">>,
            <<"T","e","r","m">>,
            <<"M","i","n","_","M","W","h">>,
            <<"M","a","x","_","M","W","h">>,
            <<"D","a","i","l","y","_","N","o","_","R","u","c">>,
            <<"R","u","c","_","N","o","d","a","l">>,
            <<"D","a","i","l","y">>,
            <<"C","o","m","_","D","i","s","c">>,
            <<"H","O","A","_","D","i","s","c">>,
            <<"B","r","o","k","e","r","_","F","e","e">>,
            <<"M","e","t","e","r","_","F","e","e">>,
            <<"M","a","x","_","M","e","t","e","r","s">> >>,
     perm |-> <<1, 2, 3, 4, 5, 6, 7, 8, 9, 10, 11, 12, 13, 14, 15, 16>>],
    [title |-> TRUE,
     header |-> <<
            <<"I","D">>,
            <<"P","r","i","c","e"," ","D","a","t","e">>,
            <<" ","d","a","t","e"," ">>,
            <<"Z","o","n","e">>,
            <<"R","E","P","1">>,
            <<"L","o","a","d">>,
            <<"T","E","R","M">>,
            <<"M","i","n"," ","M","W","h">>,
            <<"M","a","x"," ","M","W","h">>,
            <<"D","a","i","l","y"," ","N","o"," ","R","u","c">>,
            <<"R","U","C"," ","N","o","d","a","l">>,
            <<"D","a","i","l","y">>,
            <<"C","o","m"," ","D","i","s","c">>,
            <<"H","O","A"," ","D","i","s","c">>,
            <<"B","r","o","k","e","r"," ","F","e","e">>,
            <<"M","e","t","e","r"," ","F","e","e">>,
            <<"M","a","x"," ","M","e","t","e","r","s">>,
            <<"D","a","t","e">> >>,
     perm |-> <<0, 1, 2, 3, 5, 4, 6, 7, 8, 9, 10, 11, 12, 13, 14, 15, 16, 0>>],
    [title |-> FALSE,
     header |-> <<
            <<"P","r","i","c","e","_","D","a","t","e">>,
            <<"D","a","t","e">>,
            <<"Z","o","n","e">>,
            <<"L","o","a","d">>,
            <<"R","E","P","1">>,
            <<"T","e","r","m">>,
            <<"M","i","n","_","M","W","h">>,
            <<"M","a","x","_","M","W","h">>,
            <<"D","a","i","l","y","_","N","o","_","R","u","c">>,
            <<"R","u","c","_","N","o","d","a","l">>,
            <<"D","a","i","l","y">>,
            <<"C","o","m","_","D","i","s","c">>,
            <<"H","O","A","_","D","i","s","c">>,
            <<"B","r","o","k","e","r","_","F","e","e">>,
            <<"M","e","t","e","r","_","F","e","e">> >>,
     perm |-> <<1, 2, 3, 4, 5, 6, 7, 8, 9, 10, 11, 12, 13, 14, 15>>]}

TemplateRows == {TemplateValues1}

MkTemplate(layout, rows) ==
    LET n == Len(layout.header)
        title == [c \in 1..n |-> IF c = 1 THEN PyStr(<<"P","r","i","c","e","s">>) ELSE PyNone]
        header == [c \in 1..n |-> PyStr(layout.header[c])]
        step == IF layout.title THEN 2 ELSE 1
        data == [k \in 1..(step * Len(rows)) |->
                    [c \in 1..n |-> IF layout.perm[c] = 0 \/ k % step # 0 THEN PyNone
                                    ELSE rows[k \div step][layout.perm[c]]]]
    IN  [sheetnames |-> {"Template"},
         ws |-> (IF layout.title THEN <<title>> ELSE <<>>) \o <<header>> \o data]

Templates ==
    {MkTemplate(layout, rows) :
        layout \in TemplateLayouts, rows \in SeqsUpTo(TemplateRows, MaxAppendRows)}

\* read_template of each of these templates
ReadTemplates == [template \in Templates |-> read_template(template.ws)]

\* an append that goes on without the sheet or the columns it looks for
append_template_rows_unchecked(found, src, ws_dst) ==
    [error |-> "",
     ws |-> write_rows(ws_dst, find_first_blank_row(ws_dst), max_id(ws_dst) + 1, src.rows),
     n |-> Len(src.rows)]

\* what append_from_template does to the worksheet once the template is
\* read into src: [error, ws, n]
append_template_rows(found, src, ws_dst) ==
    IF ~found
    THEN [error |-> "ValueError: sheet not found", ws |-> ws_dst, n |-> 0]
    ELSE IF src.missing # {}
    THEN [error |-> "ValueError: missing expected columns", ws |-> ws_dst, n |-> 0]
    ELSE [error |-> "",
          ws |-> write_rows(ws_dst, find_first_blank_row(ws_dst),
                            max_id(ws_dst) + 1, src.rows),
          n |-> Len(src.rows)]

append_from_template(template, template_sheet, ws_dst) ==
    append_template_rows(template_sheet \in template.sheetnames,
                         IF template \in Templates THEN ReadTemplates[template]
                         ELSE read_template(template.ws),
                         ws_dst)

(***************************************************************************)
(* append_l_aa and the default path of main                                *)
(***************************************************************************)
\* openpyxl.utils.datetime.from_excel(n).date() for a whole serial number of
\* the 1900 date system after February 1900
excel_from_serial(n) ==
    LET z == n - 25569 + 719468
        era == z \div 146097
        doe == z - era * 146097
        yoe == (doe - doe \div 1460 + doe \div 36524 - doe \div 146096) \div 365
        doy == doe - (365 * yoe + yoe \div 4 - yoe \div 100)
        mp == (5 * doy + 2) \div 153
        d == doy - (153 * mp + 2) \div 5 + 1
        m == IF mp < 10 THEN mp + 3 ELSE mp - 9
        y == yoe + era * 400 + (IF m <= 2 THEN 1 ELSE 0)
    IN  PyDate(y, m, d)

\* the value append_l_aa writes for a value of the source block
l_aa_value(val) ==
    CASE val.t = "int" /\ val.n > 20000 /\ val.n < 60000 -> excel_from_serial(val.n)
      [] val.t = "float" /\ val.n >= 20000 /\ val.n < 60000 /\ (val.n > 20000 \/ val.f > 0) ->
            excel_from_serial(val.n)
      [] val.t = "datetime" -> PyDate(val.y, val.m, val.d)
      [] val.t = "str" -> IF to_date(val) = NaT THEN val ELSE to_date(val)
      [] OTHER -> val

\* int(prev) if prev is not None and str(prev).strip() != '' else 0, and 0
\* where int() raises
prev_int(prev) ==
    CASE prev.t \in {"int", "float"} -> prev.n
      [] prev.t = "str" /\ isdigit(strip(prev.s)) -> int_of_digits(strip(prev.s))
      [] OTHER -> 0

\* row_vals with the values at indices 3 and 4 exchanged
swap_o_p(row_vals) ==
    IF Len(row_vals) >= 5
    THEN [row_vals EXCEPT ![4] = row_vals[5], ![5] = row_vals[4]]
    ELSE row_vals

\* the rows of append_l_aa, one after the other, from row r on
RECURSIVE l_aa_rows(_, _, _)
l_aa_rows(ws, r, rows) ==
    IF Len(rows) = 0 THEN ws
    ELSE LET id == IF r = 1 THEN 1 ELSE prev_int(cell_value(ws, r - 1, 1)) + 1
             w1 == apply_master_formats(set_cell(ws, r, 1, PyInt(id)), r)
             vals == swap_o_p(rows[1])
             w2 == write_cells(w1, r, 2, [k \in 1..Len(vals) |-> l_aa_value(vals[k])])
         IN  l_aa_rows(w2, r + 1, Tail(rows))

\* the worksheet append_l_aa saves; src_rows is the block L..AA of the
\* source sheet from row 2 on
append_l_aa(src_rows, ws_dst) ==
    LET rows == SelectSeq(src_rows, LAMBDA row : \E k \in 1..Len(row) : ~is_blank(row[k]))
        last_row == last_data_row(ws_dst, 50)
        start_row == IF last_row >= 1 THEN last_row + 1 ELSE 1
    IN  l_aa_rows(ws_dst, start_row, rows)

\* the cells of one row of the default path of main: the value, then the
\* format of the last row's column, then the date format for a date
main_cells(ws, r, row_data, dst_formats) ==
    LET g == grow(ws, r)
        fmt(c_offset) ==
            IF row_data[c_offset].t \in {"date", "datetime"} THEN "m/dd/yyyy"
            ELSE IF c_offset + 1 \in DOMAIN dst_formats
                 THEN dst_formats[c_offset + 1] ELSE "General"
    IN  [g EXCEPT ![r] =
            [c \in 1..NCOLS |->
                IF c - 1 \in 1..Len(row_data)
                THEN [bind_value(g[r][c], row_data[c - 1]) EXCEPT !.fmt = fmt(c - 1)]
                ELSE g[r][c]]]

RECURSIVE main_rows(_, _, _, _)
main_rows(ws, r, rows, dst_formats) ==
    IF Len(rows) = 0 THEN ws
    ELSE LET id == IF r = 1 THEN 1 ELSE prev_int(cell_value(ws, r - 1, 1)) + 1
             w1 == set_cell(ws, r, 1, PyInt(id))
         IN  main_rows(main_cells(w1, r, rows[1], dst_formats), r + 1,
                       Tail(rows), dst_formats)

\* the load_workbook(dst) calls of a default run with rows to append: main's
\* own wb_dst and the workbook add_formulas loads and saves on its own
main_loads == 2

\* the worksheet the default path of main saves last (the formulas that
\* add_formulas saved before it are overwritten by this save)
main_default(ws_dst, combined_df) ==
    LET last_row == last_data_row(ws_dst, 40)
        start_row == IF last_row >= 1 THEN last_row + 1 ELSE 1
        dst_formats == [c \in 1..Len(BASE_COLS) |->
                           IF last_row > 0 THEN ws_dst[last_row][c].fmt ELSE "General"]
    IN  main_rows(ws_dst, start_row, itertuples(combined_df), dst_formats)

\* create_master_table_backup: the copy is named after the second it is
\* made in, and a copy made in the same second replaces the earlier one
create_master_table_backup(bk, ws, t) ==
    [s \in DOMAIN bk \cup {t} |-> IF s = t THEN ws ELSE bk[s]]

(***************************************************************************)
(* The master worksheets, data frames, templates and source rows the       *)
(* append engine is run on.                                                *)
(***************************************************************************)
\* a row of the master as the engine leaves it: ID, values, master formats
DataRow(id, vals) ==
    [c \in 1..NCOLS |->
        [v |-> IF c = 1 THEN id ELSE vals[c - 1],
         fmt |-> MASTER_FORMATS[c],
         al |-> IF c = 6 THEN "right" ELSE "general"]]

HeaderRow ==
    LET names == <<
            <<"I","D">>,
            <<"P","r","i","c","e","_","D","a","t","e">>,
            <<"D","a","t","e">>,
            <<"Z","o","n","e">>,
            <<"L","o","a","d">>,
            <<"R","E","P","1">>,
            <<"T","e","r","m">>,
            <<"M","i","n","_","M","W","h">>,
            <<"M","a","x","_","M","W","h">>,
            <<"D","a","i","l","y","_","N","o","_","R","u","c">>,
            <<"R","U","C","_","N","o","d","a","l">>,
            <<"D","a","i","l","y">>,
            <<"C","o","m","_","D","i","s","c">>,
            <<"H","O","A","_","D","i","s","c">>,
            <<"B","r","o","k","e","r","_","F","e","e">>,
            <<"M","e","t","e","r","_","F","e","e">>,
            <<"M","a","x","_","M","e","t","e","r","s">> >>
    IN  [c \in 1..NCOLS |-> [v |-> PyStr(names[c]), fmt |-> "General", al |-> "general"]]

\* master tables: in row order; with an emptied row between data rows; with
\* a row that holds data and no ID
Masters ==
    {<<HeaderRow, DataRow(PyInt(1), MasterValues1), DataRow(PyInt(2), MasterValues2)>>,
     <<HeaderRow, DataRow(PyInt(1), MasterValues1), DataRow(PyNone, BlankValues),
       DataRow(PyFloat(3, 0), MasterValues2)>>,
     <<HeaderRow, DataRow(PyInt(4), MasterValues1), DataRow(PyNone, MasterValues2)>>}

\* rows of a frame in the master layout, as the mapper returns them
MasterRows == {<<PyNone>> \o MasterValues1}

\* rows of a filtered frame, in the order of BASE_COLS

BaseRows == {
    <<
        [t |-> "datetime", y |-> 2024, m |-> 3, d |-> 1, h |-> 0],
        PyStr(<<"T","X">>),
        PyStr(<<"O","N","C","O","R">>),
        PyStr(<<"N","O","R","T","H">>),
        PyStr(<<"L","O","W">>),
        PyInt(12),
        PyStr(<<"F","i","x","e","d"," ","P","r","i","c","e">>),
        PyFloat(0, 7) >>}

\* rows of the block L..AA of a source sheet
LAARows == {
    <<
        PyInt(45352),
        [t |-> "datetime", y |-> 2024, m |-> 3, d |-> 1, h |-> 0],
        PyStr(<<"H","O","U","S","T","O","N">>),
        PyStr(<<"H","U","D","S","O","N">>),
        PyStr(<<"H","I","G","H">>),
        PyInt(12),
        PyInt(0),
        PyInt(1000),
        PyInt(7550),
        PyInt(0),
        PyInt(7550),
        PyInt(0),
        PyInt(0),
        PyInt(0),
        PyInt(0),
        PyInt(5) >>,
    <<
        PyInt(45352),
        PyStr(<<"2","0","2","4","-","0","6","-","0","1">>),
        PyStr(<<"N","O","R","T","H">>),
        PyStr(<<"H","U","D","S","O","N">>),
        PyStr(<<"L","O","W">>),
        PyInt(24),
        PyInt(0),
        PyInt(25000),
        PyInt(6400),
        PyInt(0),
        PyInt(6400),
        PyInt(0),
        PyInt(0),
        PyInt(0),
        PyInt(0),
        PyInt(5) >>}

InitAppend ==
    /\ master \in Masters
    /\ df = EmptyFrame(MASTER_COLS)
    /\ query = NoQuery
    /\ out = PyNone
    /\ op = "init"
    /\ backups = <<>>
    /\ now = 0
    /\ written = {}
    /\ InitWorld

\* the rows start..start+n-1 fit the sheets the model looks at
Room(start, n) == start + n - 1 <= MaxSheetRows

A ==
    \E rows \in SeqsUpTo(MasterRows, MaxAppendRows) :
        LET master_df == MkFrame(MASTER_COLS, rows)
            start == find_first_blank_row(master)
        IN  /\ Room(start, Len(rows))
            /\ op' = "a"
            /\ out' = PyInt(Len(rows))
            /\ IF Len(rows) = 0
               THEN written' = {} /\ UNCHANGED <<master, backups>>
               ELSE /\ backups' = create_master_table_backup(backups, master, now)
                    /\ master' = append_master_formatted_dataframe_to_master(master, master_df)
                    /\ written' = start..(start + Len(rows) - 1)
            /\ UNCHANGED <<df, query, now>>
            /\ loads' = IF Len(rows) = 0 THEN 0 ELSE 1
            /\ UNCHANGED surroundings

AppendFilteredDataframeToMaster ==
    \E rows \in SeqsUpTo(BaseRows, MaxAppendRows) :
        LET combined_df == MkFrame(BASE_COLS, rows)
            start == find_first_blank_row(master)
        IN  /\ Room(start, Len(rows))
            /\ op' = "append_filtered_dataframe_to_master"
            /\ out' = PyInt(Len(rows))
            /\ IF Len(rows) = 0
               THEN written' = {} /\ UNCHANGED <<master, backups>>
               ELSE /\ backups' = create_master_table_backup(backups, master, now)
                    /\ master' = append_filtered_dataframe_to_master(master, combined_df)
                    /\ written' = start..(start + Len(rows) - 1)
            /\ UNCHANGED <<df, query, now>>
            /\ loads' = IF Len(rows) = 0 THEN 0 ELSE 1
            /\ UNCHANGED surroundings

AppendFromTemplate ==
    \E template \in Templates, template_sheet \in {"Template", "Prices"} :
        \E res \in {append_from_template(template, template_sheet, master)},
           start \in {find_first_blank_row(master)} :
            /\ Room(start, res.n)
            /\ backups' = create_master_table_backup(backups, master, now)
            /\ master' = res.ws
            /\ written' = start..(start + res.n - 1)
            /\ out' = IF res.error = "" THEN PyNone ELSE [t |-> "error", e |-> res.error]
            /\ op' = "append_from_template"
            /\ query' = [template |-> template, template_sheet |-> template_sheet]
            /\ UNCHANGED <<df, now>>
            /\ loads' = IF res.error = "" THEN 1 ELSE 0
            /\ UNCHANGED surroundings

AppendLAA ==
    \E src_rows \in SeqsUpTo(LAARows, MaxAppendRows) :
        LET n == Len(SelectSeq(src_rows, LAMBDA row : row # BlankValues))
            start == last_data_row(master, 50) + 1
        IN  /\ Room(start, n)
            /\ op' = "append_l_aa"
            /\ out' = PyNone
            /\ IF n = 0
               THEN written' = {} /\ UNCHANGED master
               ELSE /\ master' = append_l_aa(src_rows, master)
                    /\ written' = start..(start + n - 1)
            /\ query' = [src_rows |-> src_rows]
            /\ UNCHANGED <<df, backups, now>>
            /\ loads' = 1
            /\ UNCHANGED surroundings

MainDefault ==
    \E rows \in SeqsUpTo(BaseRows, MaxAppendRows) :
        LET combined_df == MkFrame(BASE_COLS, rows)
            start == last_data_row(master, 40) + 1
        IN  /\ Room(start, Len(rows))
            /\ op' = "main"
            /\ out' = PyNone
            /\ IF Len(rows) = 0
               THEN written' = {} /\ UNCHANGED master
               ELSE /\ master' = main_default(master, combined_df)
                    /\ written' = start..(start + Len(rows) - 1)
            /\ UNCHANGED <<df, query, backups, now>>
            /\ loads' = IF Len(rows) = 0 THEN 0 ELSE main_loads
            /\ UNCHANGED surroundings

\* a second passes
Tick ==
    /\ now < MaxTime
    /\ now' = now + 1
    /\ UNCHANGED <<df, query, out, op, master, backups, written>>
    /\ UNCHANGED world

\* the appends that look for the first row without an ID
NextAppend ==
    \/ A
    \/ AppendFilteredDataframeToMaster
    \/ AppendFromTemplate
    \/ Tick

SpecAppend == InitAppend /\ [][NextAppend]_vars

\* every operation that saves the master
Next ==
    \/ A
    \/ AppendFilteredDataframeToMaster
    \/ AppendFromTemplate
    \/ AppendLAA
    \/ MainDefault
    \/ Tick

Spec == InitAppend /\ [][Next]_vars

(***************************************************************************)
(* transform_input_to_master_df (excel_reader.py): the mapper that takes   *)
(* the input columns by position (D term, E description, H price, J start  *)
(* date).  The input workbook has one sheet, the frame df.                 *)
(***************************************************************************)
PyPath(p) == [t |-> "path", p |-> p]

Raised(e) == [t |-> "error", e |-> e]

IsLetter(c) == IsUpper(c) \/ IsLower(c)

\* a character \b counts as part of a word
IsWordChar(c) == IsLetter(c) \/ IsDigit(c) \/ c = "_"

\* str(val or '')
text_or_empty(val) == IF py_truthy(val) THEN py_str(val) ELSE <<>>

\* the end of the run of letters that starts at p
letters_end(s, p) == MaxOf({b \in p..Len(s) : \A k \in p..b : IsLetter(s[k])})

\* the end of the run of spaces that follows position b (b where none follows)
spaces_end(s, b) == MaxOf({e \in b..Len(s) : \A k \in (b + 1)..e : IsSpace(s[k])})

\* zone\b (IGNORECASE) right after position e
zone_after(s, e) ==
    /\ e + 4 <= Len(s)
    /\ lower(SubSeq(s, e + 1, e + 4)) = <<"z","o","n","e">>
    /\ (e + 4 = Len(s) \/ ~IsWordChar(s[e + 5]))

\* \b([A-Za-z]+)\s+zone\b matches with the group starting at p
zone_match_at(s, p) ==
    /\ IsLetter(s[p])
    /\ (p = 1 \/ ~IsWordChar(s[p - 1]))
    /\ spaces_end(s, letters_end(s, p)) > letters_end(s, p)
    /\ zone_after(s, spaces_end(s, letters_end(s, p)))

\* m.group(1).strip().lower() of re.search, <<>> without a match
zone_word(s) ==
    LET starts == {p \in 1..Len(s) : zone_match_at(s, p)}
    IN  IF starts = {} THEN <<>>
        ELSE lower(SubSeq(s, MinOf(starts), letters_end(s, MinOf(starts))))

NA == PyStr(<<"N","A">>)

zone_of_word(w) ==
    CASE w = <<"n","o","r","t","h">> -> PyStr(<<"N","O","R","T","H">>)
      [] w = <<"w","e","s","t">> -> PyStr(<<"W","E","S","T">>)
      [] w = <<"s","o","u","t","h">> -> PyStr(<<"S","O","U","T","H">>)
      [] w = <<"h","o","u","s","t","o","n">> -> PyStr(<<"C","O","A","S","T">>)
      [] OTHER -> NA

parse_zone_from_col_e(val) == zone_of_word(zone_word(strip(text_or_empty(val))))

load_of_text(s) ==
    IF contains(s, <<"h","i","g","h">>) THEN PyStr(<<"H","I","G","H">>)
    ELSE IF contains(s, <<"m","e","d">>) THEN PyStr(<<"M","E","D">>)
    ELSE IF contains(s, <<"l","o","w">>) THEN PyStr(<<"L","O","W">>)
    ELSE NA

parse_load_from_col_e(val) == load_of_text(lower(text_or_empty(val)))

\* work_df.columns[idx] if idx < work_df.shape[1] else None, as the position
\* of the column (0 for None)
col_at(f, idx) == IF idx < Len(f.columns) THEN idx + 1 ELSE 0

\* _find(norm_map, ['product']): norm_map keeps, for a normalized name, the
\* last of the columns that have it
find_product(f) ==
    LET hits == {i \in 1..Len(f.columns) : norm(f.columns[i]) = <<"p","r","o","d","u","c","t">>}
    IN  IF hits = {} THEN 0 ELSE MaxOf(hits)

\* pd.to_numeric(x, errors='coerce').fillna(0.0) * 1000.0 for one element
times1000(v) ==
    CASE v.t = "int" -> PyFloat(v.n * 1000, 0)
      [] v.t = "float" -> PyFloat(v.n * 1000 + v.f * 100, 0)
      [] OTHER -> PyFloat(0, 0)

\* the rows of out that are kept by out[out['Term'].notna()], as index
\* labels of the sheet
reader_kept(f) ==
    IF col_at(f, 3) = 0 THEN <<>>
    ELSE SelectSeq(work_rows(f, find_product(f)),
                   LAMBDA i : term_to_int(f.rows[i][col_at(f, 3)]) # PyNone)

\* the row of out built from the input row r; id is its ID
reader_row(f, r, id) ==
    << id,
       today,
       IF col_at(f, 9) = 0 THEN NaT ELSE to_date(r[col_at(f, 9)]),
       IF col_at(f, 4) = 0 THEN NA ELSE parse_zone_from_col_e(r[col_at(f, 4)]),
       IF col_at(f, 4) = 0 THEN NA ELSE parse_load_from_col_e(r[col_at(f, 4)]),
       PyStr(<<"H","U","D","S","O","N">>),
       to_numeric(term_to_int(r[col_at(f, 3)])),
       PyInt(0),
       PyInt(1000),
       IF col_at(f, 7) = 0 THEN PyFloat(0, 0) ELSE times1000(to_numeric(r[col_at(f, 7)])),
       PyFloat(0, 0),
       IF col_at(f, 7) = 0 THEN PyFloat(0, 0) ELSE times1000(to_numeric(r[col_at(f, 7)])),
       PyFloat(0, 0),
       PyFloat(0, 0),
       PyFloat(0, 0),
       PyFloat(0, 0),
       PyInt(5) >>

\* dest: pd.concat(frames, ignore_index=True) with dest['ID'] = range(base,
\* base + len(dest)), for the kept rows
reader_dest(f, kept, base) ==
    [columns |-> MASTER_COLS,
     index |-> [k \in 1..Len(kept) |-> k - 1],
     rows |-> [i \in 0..(Len(kept) - 1) |->
                 reader_row(f, f.rows[kept[i + 1]], PyInt(base + i))]]

\* _max_id_from_master: the largest number of column A below the header
\* row, 0 for a file that is missing or has none
max_id_from_master(exists, ws) ==
    LET nums == {to_numeric(cell_value(ws, r, 1)).n :
                    r \in {q \in 2..Len(ws) :
                              to_numeric(cell_value(ws, q, 1)).t \in {"int", "float"}}}
    IN  IF ~exists \/ nums = {} THEN 0 ELSE MaxOf(nums)

\* base = start_id if start_id is not None else
\*        (_max_id_from_master(Path(master_path)) + 1 if master_path else 1)
base_id(start_id, master_path, exists, ws) ==
    IF start_id # PyNone THEN start_id.n
    ELSE IF master_path THEN max_id_from_master(exists, ws) + 1
    ELSE 1

\* the value the call evaluates to: the empty frame of the early returns;
\* once dest is built and its IDs and dtypes are set the body ends without a
\* return statement, so the call evaluates to None
transform_input_to_master_df(f, base) ==
    IF Len(f.index) = 0 \/ Len(reader_kept(f)) = 0 THEN EmptyFrame(MASTER_COLS)
    ELSE PyNone

ReaderLayouts == {
    <<[name |-> <<"P","r","o","d","u","c","t">>, kind |-> "product"],
      [name |-> <<"Z","o","n","e">>, kind |-> "zone"],
      [name |-> <<"L","F">>, kind |-> "lf"],
      [name |-> <<"T","e","r","m">>, kind |-> "term"],
      [name |-> <<"D","e","s","c","r","i","p","t","i","o","n">>, kind |-> "desc"],
      [name |-> <<"F">>, kind |-> "zone"],
      [name |-> <<"G">>, kind |-> "lf"],
      [name |-> <<"P","r","i","c","e">>, kind |-> "price"],
      [name |-> <<"I">>, kind |-> "lf"],
      [name |-> <<"S","t","a","r","t">>, kind |-> "start"]>>,
    <<[name |-> <<"Z","o","n","e">>, kind |-> "zone"],
      [name |-> <<"L","F">>, kind |-> "lf"],
      [name |-> <<"P","r","i","c","e">>, kind |-> "price"],
      [name |-> <<"T","e","r","m">>, kind |-> "term"],
      [name |-> <<"D","e","s","c","r","i","p","t","i","o","n">>, kind |-> "desc"]>> }

ReaderRowSpecs == {
    [product |-> PyStr(<<"F","i","x","e","d"," ","P","r","i","c","e">>),
     term |-> PyInt(12),
     desc |-> PyStr(<<"H","o","u","s","t","o","n"," ","Z","o","n","e"," ","H","i","g","h"," ","L","o","a","d">>),
     start |-> PyStr(<<"2","0","2","4","-","0","3","-","0","1">>),
     price |-> PyFloat(75, 5),
     zone |-> PyStr(<<"H","O","U","S","T","O","N">>),
     lf |-> PyStr(<<"H","i","g","h">>)],
    [product |-> PyStr(<<"F","i","x","e","d"," ","P","r","i","c","e">>),
     term |-> PyStr(<<"2","4"," ","m","o","n","t","h","s">>),
     desc |-> PyStr(<<"l","o","w"," ","l","o","a","d",","," ","n","o","r","t","h"," "," ","z","o","n","e">>),
     start |-> [t |-> "datetime", y |-> 2024, m |-> 9, d |-> 1, h |-> 6],
     price |-> PyStr(<<"6","4">>),
     zone |-> PyStr(<<"N","O","R","T","H">>),
     lf |-> PyStr(<<"L","o","w">>)],
    [product |-> PyStr(<<"F","i","x","e","d"," ","P","r","i","c","e">>),
     term |-> PyInt(13),
     desc |-> PyStr(<<"W","e","s","t"," ","Z","o","n","e">>),
     start |-> PyStr(<<"T","B","D">>),
     price |-> NaN,
     zone |-> PyStr(<<"W","E","S","T">>),
     lf |-> PyStr(<<>>)],
    [product |-> PyStr(<<"F","i","x","e","d"," ","P","r","i","c","e">>),
     term |-> PyFloat(36, 0),
     desc |-> PyStr(<<"S","o","u","t","h"," ","z","o","n","e","s"," ","m","e","d","i","u","m">>),
     start |-> PyStr(<<"2","0","2","5","-","0","1","-","0","1">>),
     price |-> PyInt(80),
     zone |-> PyStr(<<"S","O","U","T","H">>),
     lf |-> PyStr(<<"M","e","d","i","u","m">>)],
    [product |-> PyStr(<<"I","n","d","e","x">>),
     term |-> PyInt(60),
     desc |-> PyStr(<<"S","o","u","t","h"," ","z","o","n","e">>),
     start |-> PyStr(<<"2","0","2","5","-","0","1","-","0","1">>),
     price |-> PyInt(80),
     zone |-> PyStr(<<"S","O","U","T","H">>),
     lf |-> PyStr(<<>>)] }

StartIds == {PyNone, PyInt(0), PyInt(7)}

InitReader ==
    /\ \E layout \in ReaderLayouts, specs \in SeqsUpTo(ReaderRowSpecs, MaxRows) :
          df = MkMatrixTable(layout, specs)
    /\ query = NoQuery
    /\ out = PyNone
    /\ op = "init"
    /\ master \in Masters
    /\ backups = <<>>
    /\ now = 0
    /\ written = {}
    /\ master_exists \in BOOLEAN
    /\ copy = NoFile
    /\ env = Unset
    /\ stages = <<>>
    /\ loads = 0
    /\ InitGraph

TransformInputToMasterDf ==
    /\ op = "init"
    /\ \E start_id \in StartIds, master_path \in BOOLEAN, input_exists \in BOOLEAN :
          /\ query' = [start_id |-> start_id, master_path |-> master_path,
                       input_exists |-> input_exists]
          /\ out' = IF ~input_exists THEN Raised("FileNotFoundError")
                    ELSE transform_input_to_master_df(
                             df, base_id(start_id, master_path, master_exists, master))
    /\ op' = "transform_input_to_master_df"
    /\ UNCHANGED <<df, master, backups, now, written>>
    /\ UNCHANGED world

NextReader == TransformInputToMasterDf

SpecReader == InitReader /\ [][NextReader]_vars

(***************************************************************************)
(* write_updated_master_copy (excel_processor.py): the append of a() made  *)
(* on a workbook that is saved under another name.                         *)
(***************************************************************************)
master_filename == "Master-Table.xlsx"

out_filename == "master-file-updated.xlsx"

\* the values written to B..Q for one row of master_df: the row's own
\* values, None for a header the frame lacks
copy_values(f, row) ==
    [h \in 1..Len(MASTER_HEADERS) |->
        IF ColPos(f, MASTER_HEADERS[h]) = 0 THEN PyNone
        ELSE row[ColPos(f, MASTER_HEADERS[h])]]

\* one row of the copy: the master formats, the ID in column A, then B..Q
copy_row(ws, r, id, vals) ==
    write_cells(set_cell(apply_master_formats(ws, r), r, 1, PyInt(id)), r, 2, vals)

RECURSIVE copy_rows(_, _, _, _)
copy_rows(ws, r, id, rows) ==
    IF Len(rows) = 0 THEN ws
    ELSE copy_rows(copy_row(ws, r, id, rows[1]), r + 1, id + 1, Tail(rows))

\* the workbook write_updated_master_copy saves to out_path
updated_copy(ws_dst, master_df) ==
    copy_rows(ws_dst, find_first_blank_row(ws_dst), get_next_id(ws_dst),
              [k \in 1..Len(master_df.index) |->
                  copy_values(master_df, itertuples(master_df)[k])])

\* what a call does: the exception it raises ("" for none), the path it
\* returns, whether it saved a workbook there and the workbook it saved
write_updated_master_copy(exists, ws_dst, master_df) ==
    IF ~exists
    THEN [raised |-> "FileNotFoundError", path |-> PyNone, saved |-> FALSE, wb |-> ws_dst]
    ELSE IF Len(master_df.index) = 0
    THEN [raised |-> "", path |-> PyPath(out_filename), saved |-> FALSE, wb |-> ws_dst]
    ELSE [raised |-> "", path |-> PyPath(out_filename), saved |-> TRUE,
          wb |-> updated_copy(ws_dst, master_df)]

WriteUpdatedMasterCopy ==
    \E rows \in SeqsUpTo(MasterRows, MaxAppendRows) :
        \E res \in {write_updated_master_copy(master_exists, master,
                                              MkFrame(MASTER_COLS, rows))} :
            /\ df' = MkFrame(MASTER_COLS, rows)
            /\ op' = "write_updated_master_copy"
            /\ out' = IF res.raised = "" THEN res.path ELSE Raised(res.raised)
            /\ copy' = IF res.saved THEN File(res.wb) ELSE copy
            /\ written' = {}
            /\ UNCHANGED <<query, master, backups, now, master_exists, env, stages, loads,
                           config, requests, local>>

(***************************************************************************)
(* create_master_table_backup as a call: the master may be missing and     *)
(* shutil.copy2 may fail.  copy2 is copyfile followed by copystat, and an  *)
(* exception leaves behind whatever was written before it.                 *)
(***************************************************************************)
\* how a shutil.copy2 call ends: it returns; the destination cannot be
\* opened; the write stops part way; copystat raises after the content was
\* copied
copy2_outcomes == {"ok", "refused", "truncated", "unstamped"}

\* a file whose writing stopped part way: no row of the master can be read
\* from it
Truncated == <<>>

\* backup_dir / f"{stem}_backup_{timestamp}{suffix}"
backup_path(t) == [t |-> "path", p |-> "backups/Master-Table_backup.xlsx", timestamp |-> t]

\* the files of the backup directory after shutil.copy2(master_path, backup_path)
copy2(outcome, bk, ws, t) ==
    CASE outcome \in {"ok", "unstamped"} -> create_master_table_backup(bk, ws, t)
      [] outcome = "truncated" -> create_master_table_backup(bk, Truncated, t)
      [] OTHER -> bk

\* the value a call returns and the backup directory it leaves
create_backup(exists, outcome, bk, ws, t) ==
    IF ~exists THEN [path |-> PyNone, files |-> bk]
    ELSE [path |-> IF outcome = "ok" THEN backup_path(t) ELSE PyNone,
          files |-> copy2(outcome, bk, ws, t)]

CreateMasterTableBackup ==
    \E outcome \in copy2_outcomes :
        \E res \in {create_backup(master_exists, outcome, backups, master, now)} :
            /\ out' = res.path
            /\ backups' = res.files
            /\ op' = "create_master_table_backup"
            /\ written' = {}
            /\ UNCHANGED <<df, query, master, now>>
            /\ UNCHANGED world

\* the master table may be missing from its directory
InitFiles ==
    /\ master \in Masters
    /\ df = EmptyFrame(MASTER_COLS)
    /\ query = NoQuery
    /\ out = PyNone
    /\ op = "init"
    /\ backups = <<>>
    /\ now = 0
    /\ written = {}
    /\ master_exists \in BOOLEAN
    /\ copy = NoFile
    /\ env = Unset
    /\ stages = <<>>
    /\ loads = 0
    /\ InitGraph

NextFiles ==
    \/ WriteUpdatedMasterCopy
    \/ CreateMasterTableBackup
    \/ Tick

SpecFiles == InitFiles /\ [][NextFiles]_vars

(***************************************************************************)
(* download_files.main (old-code/download_files.py): download the master   *)
(* and the Hudson input, transform, write the updated copy, upload it.     *)
(* df is the sheet of the Hudson workbook on SharePoint and master the     *)
(* master table there; the copies main renames out of the way are not      *)
(* kept track of.                                                          *)
(***************************************************************************)
STAGES == <<"download_master", "download_hudson", "transform", "write", "upload">>

\* the value main returns when the stage fails
EXIT_CODES == [download_master |-> 1, download_hudson |-> 1, transform |-> 2,
               write |-> 3, upload |-> 4]

Stage(name, ok) == [stage |-> name, ok |-> ok]

\* the try block of the transform: the call raises nothing on a file that
\* was just downloaded, and df_master.shape raises AttributeError on None
transform_stage(f, exists, ws) ==
    transform_input_to_master_df(f, base_id(PyNone, TRUE, exists, ws))

\* upload_sharepoint_file: False for a local file that does not exist,
\* else as the PUT request fares
upload_sharepoint_file(file, put_ok) == file # NoFile /\ put_ok

\* a main that reports success although the upload failed
main_return_unless_upload(sts) ==
    IF \A k \in 1..Len(sts) : sts[k].ok \/ sts[k].stage = "upload" THEN 0
    ELSE EXIT_CODES[sts[MinOf({k \in 1..Len(sts) : ~sts[k].ok})].stage]

\* the value main returns after the stages sts: the code of the first stage
\* that failed, 0 when none did
main_return(sts) ==
    IF \A k \in 1..Len(sts) : sts[k].ok THEN 0
    ELSE EXIT_CODES[sts[MinOf({k \in 1..Len(sts) : ~sts[k].ok})].stage]

\* the stages main runs after the two downloads succeeded, for the value
\* df_master of the transform and the result res of the write
main_chain(df_master, res, file, put_ok) ==
    IF df_master = PyNone THEN <<Stage("transform", FALSE)>>
    ELSE IF res.raised # "" THEN <<Stage("transform", TRUE), Stage("write", FALSE)>>
    ELSE <<Stage("transform", TRUE), Stage("write", TRUE),
           Stage("upload", upload_sharepoint_file(file, put_ok))>>

\* the stages main runs, in order, each with its outcome
main_stages(d_master, d_hudson, chain) ==
    <<Stage("download_master", d_master), Stage("download_hudson", d_hudson)>>
        \o (IF d_master /\ d_hudson THEN chain ELSE <<>>)

DownloadFilesMain ==
    /\ op = "init"
    /\ \E d_master \in BOOLEAN, d_hudson \in BOOLEAN, put_ok \in BOOLEAN :
        \E df_master \in {transform_stage(df, d_master, master)} :
          \E res \in {write_updated_master_copy(
                          d_master, master,
                          IF df_master = PyNone THEN EmptyFrame(MASTER_COLS)
                          ELSE df_master)} :
            \E file \in {IF d_master /\ d_hudson /\ df_master # PyNone /\ res.saved
                         THEN File(res.wb) ELSE copy} :
              \E sts \in {main_stages(d_master, d_hudson,
                                      main_chain(df_master, res, file, put_ok))} :
                /\ stages' = sts
                /\ out' = PyInt(main_return(sts))
                /\ copy' = file
                /\ master_exists' = d_master
    /\ op' = "download_files.main"
    /\ UNCHANGED <<df, query, master, backups, now, written, env, loads,
                   config, requests, local>>

\* a copy written by an earlier run may lie in new_files
InitPipeline ==
    /\ \E layout \in ReaderLayouts, specs \in SeqsUpTo(ReaderRowSpecs, MaxRows) :
          df = MkMatrixTable(layout, specs)
    /\ query = NoQuery
    /\ out = PyNone
    /\ op = "init"
    /\ master \in Masters
    /\ backups = <<>>
    /\ now = 0
    /\ written = {}
    /\ master_exists \in BOOLEAN
    /\ copy \in {NoFile} \cup {File(m) : m \in Masters}
    /\ env = Unset
    /\ stages = <<>>
    /\ loads = 0
    /\ InitGraph

NextPipeline == DownloadFilesMain

SpecPipeline == InitPipeline /\ [][NextPipeline]_vars

(***************************************************************************)
(* The downloads of the master table that override SHAREPOINT_UPLOAD_FOLDER *)
(* (excel_processor.py, excel_reader.py).                                  *)
(***************************************************************************)
\* os.environ[...] = s
Env(s) == [t |-> "set", s |-> s]

master_folder == "/Kilowatt/Client Pricing Sheets"

\* how the download called under the override ends: it returns the path,
\* it returns None, or an exception that is not an Exception (a keyboard
\* interrupt) passes through it
download_outcomes == {"ok", "failed", "raised"}

PyBool(b) == [t |-> "bool", b |-> b]

\* os.getenv() of the variable: None when it is not set
getenv(e) == IF e = Unset THEN PyNone ELSE PyStr(e.s)

\* truth value of a str or None
truthy(v) == v # PyNone /\ v.s # ""

\* the finally block of download_master_table_from_sharepoint:
\* if original_folder: os.environ[...] = original_folder
restore_folder(original_folder, current) ==
    IF truthy(original_folder) THEN Env(original_folder.s) ELSE current

\* the value returned (or the exception), the environment variable and the
\* presence of the local master after download_master_table_from_sharepoint
download_master_table_from_sharepoint(exists, e, outcome) ==
    IF exists THEN [ret |-> PyBool(TRUE), env |-> e, exists |-> TRUE]
    ELSE [ret |-> IF outcome = "raised" THEN Raised("KeyboardInterrupt")
                  ELSE PyBool(outcome = "ok"),
          env |-> restore_folder(getenv(e), Env(master_folder)),
          exists |-> outcome = "ok"]

\* the try block of ensure_master_table_downloaded:
\* if parent_folder_override: os.environ[...] = parent_folder_override
override_folder(parent_folder_override, current) ==
    IF truthy(parent_folder_override) THEN Env(parent_folder_override.s) ELSE current

\* its finally block:
\* if parent_folder_override is not None and original_folder is not None:
\*     os.environ[...] = original_folder
restore_original(parent_folder_override, original_folder, current) ==
    IF parent_folder_override # PyNone /\ original_folder # PyNone
    THEN Env(original_folder.s) ELSE current

\* the same for ensure_master_table_downloaded, which renames a master that
\* is there and downloads in every case
ensure_master_table_downloaded(e, parent_folder_override, outcome) ==
    [ret |-> CASE outcome = "raised" -> Raised("KeyboardInterrupt")
               [] outcome = "ok" -> PyPath(master_filename)
               [] OTHER -> PyNone,
     env |-> restore_original(parent_folder_override, getenv(e),
                              override_folder(parent_folder_override, e)),
     exists |-> outcome = "ok"]

DownloadMasterTableFromSharepoint ==
    \E outcome \in download_outcomes :
        \E res \in {download_master_table_from_sharepoint(master_exists, env, outcome)} :
            /\ out' = res.ret
            /\ env' = res.env
            /\ master_exists' = res.exists
            /\ op' = "download_master_table_from_sharepoint"
            /\ query' = [parent_folder_override |-> PyNone]
            /\ written' = {}
            /\ UNCHANGED <<df, master, backups, now, copy, stages, loads,
                           config, requests, local>>

FolderOverrides == {PyNone, PyStr(""), PyStr(master_folder)}

EnsureMasterTableDownloaded ==
    \E outcome \in download_outcomes, parent_folder_override \in FolderOverrides :
        \E res \in {ensure_master_table_downloaded(env, parent_folder_override, outcome)} :
            /\ out' = res.ret
            /\ env' = res.env
            /\ master_exists' = res.exists
            /\ op' = "ensure_master_table_downloaded"
            /\ query' = [parent_folder_override |-> parent_folder_override]
            /\ written' = {}
            /\ UNCHANGED <<df, master, backups, now, copy, stages, loads,
                           config, requests, local>>

InitEnv ==
    /\ master \in Masters
    /\ df = EmptyFrame(MASTER_COLS)
    /\ query = NoQuery
    /\ out = PyNone
    /\ op = "init"
    /\ backups = <<>>
    /\ now = 0
    /\ written = {}
    /\ master_exists \in BOOLEAN
    /\ copy = NoFile
    /\ env \in {Unset, Env(""), Env("/Kilowatt/Client Pricing Sheets/Input Files")}
    /\ stages = <<>>
    /\ loads = 0
    /\ InitGraph

NextEnv ==
    \/ DownloadMasterTableFromSharepoint
    \/ EnsureMasterTableDownloaded
    \/ Tick

SpecEnv == InitEnv /\ [][NextEnv]_vars

(***************************************************************************)
(* Claims about the row filter.                                            *)
(***************************************************************************)
\* C1: filter_sheet retains exactly the input rows whose Product value,
\* trimmed and lower-cased, is 'fixed price' and whose Term value, after
\* parse_term_to_int, is one of 12, 24, 36, 48, 60; the kept rows are in
\* input order, none twice, and carry the values of their input row.
C1_FilterKeepsExactly ==
    op = "filter_sheet" =>
        LET pc == FirstCol(df, LAMBDA c : lower(strip(c)) \in PRODUCT_NAMES)
            tc == FirstCol(df, LAMBDA c : lower(strip(c)) \in TERM_NAMES)
            wanted == {i \in Labels(df) :
                          /\ pc # 0 /\ tc # 0
                          /\ lower(strip(py_str(df.rows[i][pc]))) = FIXED_PRICE
                          /\ parse_term_to_int(df.rows[i][tc]) \in
                                {PyInt(12), PyInt(24), PyInt(36), PyInt(48), PyInt(60)}}
        IN  /\ out.index = SortedSeq(wanted)
            /\ \A i \in wanted : \A k \in 1..Len(out.columns) :
                  out.rows[i][k] = df.rows[i][ColPos(df, out.columns[k])]

\* a table whose first row is dropped and whose second row is kept
C1_Witness ==
    /\ op = "filter_sheet"
    /\ Len(df.index) = 2
    /\ out.index = <<1>>

(***************************************************************************)
(* Claims about the schema mapper.                                         *)
(***************************************************************************)
Mapped == op \in {"hda_matrix_to_master_cols", "transform_to_master_format"}

\* the columns the operation that ran resolved
Cols ==
    resolved(df.columns,
             IF op = "transform_to_master_format"
             THEN transformer_start_candidates ELSE start_candidates)

HasRequiredColumns ==
    /\ Cols.price # 0 \/ Cols.green # 0
    /\ Cols.term # 0
    /\ Cols.start # 0
    /\ Cols.desc # 0 \/ Cols.zone # 0 \/ Cols.lf # 0

OutCell(i, name) == out.rows[i][ColPos(out, name)]

\* C2: for a table with the required columns the mapper returns exactly one
\* row for each input row whose Product is 'Fixed Price' and whose term is
\* one of 12, 24, 36, 48, 60, in input order, with Date, Zone, Load, Term and
\* price derived from that input row.
C2_OneRowPerFixedPriceRow ==
    (Mapped /\ HasRequiredColumns) =>
        LET c == Cols
            wanted == SelectSeq(df.index, LAMBDA i :
                          /\ c.prod # 0 =>
                                lower(strip(py_str(df.rows[i][c.prod]))) = FIXED_PRICE
                          /\ term_to_int(df.rows[i][c.term]) # PyNone)
        IN  /\ Len(out.index) = Len(wanted)
            /\ \A k \in 1..Len(wanted) :
                  LET src == df.rows[wanted[k]]
                      row == out.index[k]
                  IN  /\ OutCell(row, "Date") = to_date(src[c.start])
                      /\ OutCell(row, "Term") = term_to_int(src[c.term])
                      /\ c.desc # 0 => /\ OutCell(row, "Zone") = parse_zone(src[c.desc])
                                       /\ OutCell(row, "Load") = parse_lf(src[c.desc])
                      /\ (c.price # 0 /\ c.green = 0) =>
                            OutCell(row, "Daily_No_Ruc") = to_numeric(src[c.price])

\* C6: the table returned by the mapper has exactly the 17 master columns, in
\* the master order, on every return path.
C6_MasterColumns ==
    Mapped =>
        out.columns = <<"ID", "Price_Date", "Date", "Zone", "Load", "REP1", "Term",
                        "Min_MWh", "Max_MWh", "Daily_No_Ruc", "RUC_Nodal", "Daily",
                        "Com_Disc", "HOA_Disc", "Broker_Fee", "Meter_Fee", "Max_Meters">>

\* the mapper ran to its end and returned two rows
C6_Witness ==
    /\ Mapped
    /\ Len(out.index) = 2

\* C7: Price_Date of every output row is today, and Date of every output row
\* is the parsed start date of the input row the output row was made from
\* (the input row that has the output row's index label, which is the row
\* its Term was taken from).
C7_Dates ==
    Mapped =>
        \A i \in Labels(out) :
            /\ OutCell(i, "Price_Date") = today
            /\ OutCell(i, "Term") = term_to_int(df.rows[i][Cols.term])
            /\ OutCell(i, "Date") = to_date(df.rows[i][Cols.start])

\* two output rows with different start dates
C7_Witness ==
    /\ Mapped
    /\ \E i, j \in Labels(out) :
          /\ OutCell(i, "Date").t = "date"
          /\ OutCell(j, "Date").t = "date"
          /\ OutCell(i, "Date") # OutCell(j, "Date")

\* df with the description of row i replaced by d
WithDescription(i, d) ==
    [df EXCEPT !.rows[i][Cols.desc] = d]

SomeHighDescription == PyStr(<<"X">> \o LF_TOKENS[3])

\* C8: with a description column, Load is LOW when the description contains
\* 'Low Load Factor', MED when it contains 'Medium Load Factor', HIGH when it
\* contains 'High Load Factor' (in this order of precedence when it contains
\* more than one), and the empty string otherwise; and an empty Load does
\* not remove a row: the row is in the output exactly when it would be with
\* a description that has a load factor.
C8_LoadFactor ==
    (Mapped /\ Cols.desc # 0) =>
        /\ \A i \in Labels(out) :
              LET d == df.rows[i][Cols.desc].s
              IN  OutCell(i, "Load") =
                     IF contains(d, LOW_LOAD_FACTOR) THEN PyStr(<<"L","O","W">>)
                     ELSE IF contains(d, MEDIUM_LOAD_FACTOR) THEN PyStr(<<"M","E","D">>)
                     ELSE IF contains(d, HIGH_LOAD_FACTOR) THEN PyStr(<<"H","I","G","H">>)
                     ELSE PyStr(<<>>)
        /\ \A i \in Labels(df) :
              parse_lf(df.rows[i][Cols.desc]) = PyStr(<<>>) =>
                 LET other == IF op = "transform_to_master_format"
                              THEN transform_to_master_format(WithDescription(i, SomeHighDescription))
                              ELSE hda_matrix_to_master_cols(WithDescription(i, SomeHighDescription))
                 IN  (i \in Labels(out)) <=> (i \in Labels(other))

\* an output row whose Load is empty
C8_Witness ==
    /\ Mapped /\ Cols.desc # 0
    /\ \E i \in Labels(out) : OutCell(i, "Load") = PyStr(<<>>)

(***************************************************************************)
(* Claims about the column resolver.                                       *)
(***************************************************************************)
Resolved == op \in {"find_column", "get_col"}

\* the candidates, in list order, that some column equals after normalization
ExactCandidates ==
    {c \in 1..Len(query.candidates) :
        \E i \in 1..Len(df.columns) : norm(df.columns[i]) = norm(query.candidates[c])}

\* the columns whose normalized name contains a normalized candidate
ContainingColumns ==
    {i \in 1..Len(df.columns) :
        \E c \in 1..Len(query.candidates) :
            contains(norm(df.columns[i]), norm(query.candidates[c]))}

ReturnsExact ==
    /\ out.t = "str"
    /\ norm(out.s) = norm(query.candidates[MinOf(ExactCandidates)])
    /\ \E i \in 1..Len(df.columns) : df.columns[i] = out.s

ReturnsContaining ==
    /\ out.t = "str"
    /\ \E i \in ContainingColumns : df.columns[i] = out.s

IdRows(ws) == {r \in 2..Len(ws) : ws[r][1].v.t \in {"int", "float"}}

DistinctIds(ws) ==
    \A r1, r2 \in IdRows(ws) : r1 # r2 => ws[r1][1].v.n # ws[r2][1].v.n

\* the largest numeric ID of a worksheet, 0 for a worksheet without IDs
LargestId(ws) ==
    IF IdRows(ws) = {} THEN 0
    ELSE CHOOSE m \in {ws[r][1].v.n : r \in IdRows(ws)} :
            \A r \in IdRows(ws) : ws[r][1].v.n <= m

\* the rows of ws that hold a value in some column
DataRows(ws) == {r \in 1..Len(ws) : \E c \in 1..NCOLS : ~is_blank(ws[r][c].v)}

\* C3: under a(), append_filtered_dataframe_to_master and
\* append_from_template, started from a master whose IDs are pairwise
\* distinct numbers, the IDs stay pairwise distinct, and an append that
\* writes n rows gives them, top to bottom, the IDs m+1 .. m+n, m being the
\* largest numeric ID of column A before the append.
C3_ConsecutiveIds ==
    /\ [](DistinctIds(master))
    /\ [][master' # master =>
            \A r \in written' :
                master'[r][1].v = PyInt(LargestId(master) + 1 + (r - MinOf(written')))]_vars

\* the second of two appends in a row: row 3 got ID 5, then row 4 got ID 6
C3_Witness ==
    /\ op \in {"a", "append_filtered_dataframe_to_master", "append_from_template"}
    /\ written = {4}
    /\ Len(master) = 4
    /\ master[3][1].v = PyInt(5)
    /\ master[4][1].v = PyInt(6)

\* C4: the rows an append writes held no data before it, and every cell of
\* every row that held data before the append has the same value after it.
C4_OnlyUnusedRows ==
    [][master' # master =>
          /\ \A r \in written' : r \notin DataRows(master)
          /\ \A r \in DataRows(master) : \A c \in 1..NCOLS :
                master'[r][c].v = master[r][c].v]_vars

\* C5: whenever an operation changes the master, a backup that holds the
\* content the master had before the change exists afterwards.
C5_BackupBeforeSave ==
    [][master' # master => \E t \in DOMAIN backups' : backups'[t] = master]_vars

\* C10: after an append that applies the master formats, every appended row
\* has in each column A..Q the number format of MASTER_FORMATS and a
\* right-aligned column F; and apply_master_formats changes no value and no
\* row other than the one it is given.
C10_MasterFormats ==
    /\ op \in {"a", "append_filtered_dataframe_to_master", "append_from_template",
               "append_l_aa"} =>
          \A r \in written :
              /\ \A c \in 1..NCOLS : master[r][c].fmt = MASTER_FORMATS[c]
              /\ master[r][6].al = "right"
    /\ \A r \in 1..(Len(master) + 1) :
          LET w == apply_master_formats(master, r)
          IN  \A q \in 1..Len(w) :
                 /\ \A c \in 1..NCOLS : w[q][c].v = cell_value(master, q, c)
                 /\ q # r => (q <= Len(master) /\ w[q] = master[q])

(***************************************************************************)
(* Claims about the files the scripts leave.                               *)
(***************************************************************************)
\* file holds the rows of ws followed by rows, with the IDs max_id(ws) + 1,
\* max_id(ws) + 2, ... in column A
MasterFollowedBy(file, ws, rows) ==
    /\ file # NoFile
    /\ Len(file.wb) = Len(ws) + Len(rows)
    /\ \A r \in 1..Len(ws) : file.wb[r] = ws[r]
    /\ \A k \in 1..Len(rows) :
          /\ file.wb[Len(ws) + k][1].v = PyInt(max_id(ws) + k)
          /\ \A c \in 2..NCOLS : file.wb[Len(ws) + k][c].v = rows[k][c]

\* this step is a call of the operation name (the clock stands still in it)
Called(name) == op' = name /\ now' = now

C11_Step ==
    Called("write_updated_master_copy") =>
        IF ~master_exists THEN out' = Raised("FileNotFoundError")
        ELSE /\ master' = master
             /\ master_exists'
             /\ out' = PyPath(out_filename)
             /\ MasterFollowedBy(copy', master, itertuples(df'))

\* C11: write_updated_master_copy leaves the master file as it was, and the
\* file at the path it returns holds the master's rows followed by the rows
\* of master_df with the IDs renumbered from (largest ID of column A) + 1; it
\* raises FileNotFoundError when the master file does not exist.
C11_CopyHoldsMasterAndRows == [][C11_Step]_vars

C14_Step ==
    Called("create_master_table_backup") =>
        /\ master' = master
        /\ master_exists' = master_exists
        /\ IF out' = PyNone THEN backups' = backups
           ELSE /\ master_exists
                /\ out' = backup_path(now)
                /\ now \in DOMAIN backups'
                /\ backups'[now] = master

\* C14: create_master_table_backup returns None and creates no file when the
\* master file does not exist or the copy fails; otherwise it returns the
\* path of the time-stamped copy, that file has the master's content, and
\* the master file is unchanged.
C14_BackupOrNothing == [][C14_Step]_vars


(***************************************************************************)
(* Claims about the positional mapper of excel_reader.py.                  *)
(***************************************************************************)
IsFrame(v) == "columns" \in DOMAIN v

\* the first ID the call is asked to use
AskedBase ==
    IF query.start_id # PyNone THEN query.start_id.n
    ELSE IF query.master_path THEN max_id_from_master(master_exists, master) + 1
    ELSE 1

\* the input rows whose term (column D) is one of TARGET_TERMS
RowsWithTargetTerm ==
    IF Len(df.columns) < 4 THEN {}
    ELSE {i \in Labels(df) : term_to_int(df.rows[i][4]) # PyNone}

ReaderReturned == op = "transform_input_to_master_df" /\ query.input_exists

\* C12: transform_input_to_master_df returns a frame with the 17 master
\* columns, one row per input row with a term in {12,24,36,48,60}, and IDs
\* that count up from start_id when given, else from (largest ID of the
\* master) + 1 when master_path is given, else from 1.
C12_MasterFormatFrame ==
    ReaderReturned =>
        /\ IsFrame(out)
        /\ out.columns = MASTER_COLS
        /\ Len(out.index) = Cardinality(RowsWithTargetTerm)
        /\ \A k \in 1..Len(out.index) : out.rows[out.index[k]][1] = PyInt(AskedBase + k - 1)


(***************************************************************************)
(* Claims about download_files.main.                                       *)
(***************************************************************************)
MainReturned == op = "download_files.main"

AllSucceeded(sts) == \A k \in 1..Len(sts) : sts[k].ok

\* the stage named name ran and failed
Failed(name) == \E k \in 1..Len(stages) : stages[k].stage = name /\ ~stages[k].ok

C15_Step ==
    Called("download_master_table_from_sharepoint") \/ Called("ensure_master_table_downloaded")
        => env' = env

\* C15: when download_master_table_from_sharepoint or
\* ensure_master_table_downloaded returns or raises, SHAREPOINT_UPLOAD_FOLDER
\* has the value it had before the call, and is unset when it was unset.
C15_FolderRestored == [][C15_Step]_vars


(***************************************************************************)
(* Claims about append_l_aa.                                               *)
(***************************************************************************)
\* the value v of the source, or the date it stands for in a date column
\* (B, C) of the master
HoldsValue(cell, v, c) ==
    \/ cell.v = v
    \/ c \in {2, 3} /\ cell.v = l_aa_value(v)

\* row r of ws has the ID of the row above plus 1 and the values vals, with
\* those of O and P exchanged, in B..Q
AppendedLAA(ws, r, vals) ==
    /\ r \in 2..Len(ws)
    /\ is_number(ws[r - 1][1].v)
    /\ ws[r][1].v = PyInt(int_of(ws[r - 1][1].v) + 1)
    /\ \A k \in 1..Len(vals) :
          HoldsValue(ws[r][k + 1], vals[CASE k = 4 -> 5 [] k = 5 -> 4 [] OTHER -> k], k + 1)

C16_Step ==
    Called("append_l_aa") =>
        \A k \in 1..Len(query'.src_rows) :
            AppendedLAA(master', last_data_row(master, 50) + k, query'.src_rows[k])

\* C16: append_l_aa appends every source row with a value in L..AA to the
\* destination from the row after its last data row on; column A of an
\* appended row is column A of the row above plus 1, and B..Q hold the
\* source's L..AA values in order with those of O and P exchanged.
C16_AppendsBlock == [][C16_Step]_vars


(***************************************************************************)
(* Claims about append_from_template.                                      *)
(***************************************************************************)
\* the master headers no column of the template's header row stands for
Unmapped(ws) ==
    {h \in 1..Len(MASTER_HEADERS) : build_source_mapping(ws, detect_header_row(ws))[h] = 0}

\* every cell below the header row is empty in the columns the headers map to
NoDataRow(ws) ==
    \A r \in (detect_header_row(ws) + 1)..Len(ws) :
        \A h \in 1..Len(MASTER_HEADERS) :
            is_blank(stripped(ws[r][build_source_mapping(ws, detect_header_row(ws))[h]]))

\* these two facts about each of the templates
TemplateFacts ==
    [template \in Templates |->
        [unmapped |-> Unmapped(template.ws),
         no_data |-> Unmapped(template.ws) = {} /\ NoDataRow(template.ws)]]

RaisedValueError(v) ==
    v \in {Raised("ValueError: sheet not found"),
           Raised("ValueError: missing expected columns")}

NotWritten == master' = master /\ written' = {}

C17_Step ==
    Called("append_from_template") =>
        IF query'.template_sheet \notin query'.template.sheetnames
              \/ TemplateFacts[query'.template].unmapped # {}
        THEN RaisedValueError(out') /\ NotWritten
        ELSE /\ out' = PyNone
             /\ TemplateFacts[query'.template].no_data => NotWritten

\* C17: append_from_template raises ValueError when the named sheet is not in
\* the template or a master header maps to no template column; in both
\* cases, and when the template has no non-empty data row, the master
\* workbook is not written.
C17_ErrorsLeaveMaster == [][C17_Step]_vars

\* a call on a template that has the sheet and lacks a column raised
C17_Witness ==
    /\ op = "append_from_template"
    /\ query.template_sheet \in query.template.sheetnames
    /\ TemplateFacts[query.template].unmapped # {}
    /\ RaisedValueError(out)



(***************************************************************************)
(* Direct calls of transformer.parse_term_to_int.                          *)
(***************************************************************************)
MaxTerm == 61

TermValues ==
    {PyInt(n) : n \in 0..MaxTerm}
    \cup {PyFloat(n, f) : n \in {12, 13, 36}, f \in {0, 5}}
    \cup {PyStr(<<"1","2">>), PyStr(<<" ","2","4"," ">>),
          PyStr(<<"6","0"," ","m","o","n","t","h","s">>),
          PyStr(<<"1","8"," ","m","o">>),
          PyStr(<<"n","/","a">>), PyStr(<<>>),
          NaN, NaT, PyNone}

InitTerm ==
    /\ df = EmptyFrame(<<>>)
    /\ \E val \in TermValues : query = [val |-> val]
    /\ out = PyNone
    /\ op = "init"
    /\ master = <<>>
    /\ backups = <<>>
    /\ now = 0
    /\ written = {}
    /\ InitWorld

ParseTermToInt ==
    /\ op = "init"
    /\ out' = parse_term_to_int(query.val)
    /\ op' = "parse_term_to_int"
    /\ UNCHANGED <<df, query, master, backups, now, written>>
    /\ UNCHANGED world

NextTerm == ParseTermToInt

SpecTerm == InitTerm /\ [][NextTerm]_vars

\* C18: transformer.parse_term_to_int returns an integer only if the value
\* is one of the target terms 12, 24, 36, 48, 60, and None otherwise: after
\* a call the result is None or an integer of TARGET_TERMS.
C18_OnlyTargetTerms ==
    op = "parse_term_to_int" =>
        \/ out = PyNone
        \/ out.t = "int" /\ out.n \in TARGET_TERMS

\* the same for the values the filter keeps: a value whose parse is in
\* TARGET_TERMS is returned as that integer
C18_TargetTermsReturned ==
    op = "parse_term_to_int" /\ query.val.t = "int"
                             /\ query.val.n \in TARGET_TERMS
        => out = query.val


C20_DestinationOpenedOnce == loads <= 1


(***************************************************************************)
(* download_sharepoint_file (excel_processor.py): the token, the three     *)
(* Graph requests and the write of the local file.                         *)
(***************************************************************************)
\* a response of requests.get: its status_code and what its body holds
Response(status_code, body) ==
    [t |-> "response", status_code |-> status_code, body |-> body]

\* requests.get raising instead of returning
ConnectionError == Raised("ConnectionError")

\* acquire_graph_token returns the token dict or raises
token_outcomes == {"token", "raised"}

\* the answers to the site and drive requests: JSON with an 'id', JSON
\* without one, an error status, no answer
InfoResponses ==
    {Response(200, "id"), Response(200, "no id"), Response(404, "error"),
     ConnectionError}

\* the answers to the content request
ContentResponses ==
    {Response(200, "new bytes"), Response(404, "error"), ConnectionError}

\* open(download_path, "wb") and local_file.write(response.content): both
\* succeed, open raises, or write raises after open has created or
\* truncated the file
write_outcomes == {"ok", "open raised", "write raised"}

\* the file open(download_path, "wb") leaves before anything is written
EmptyLocalFile == File("")

DOWNLOAD_NAME == "Master-Table.xlsx"

\* not all([tenant_id, ..., sharepoint_folder])
missing_config(cfg, e) ==
    \E v \in {getenv(cfg[k]) : k \in CONFIG_NAMES} \cup {getenv(e)} :
        ~truthy(v)

\* the result of a call: the value returned, the calls sent out and the
\* file at download_path afterwards
Downloaded(ret, sent, file) == [ret |-> ret, requests |-> sent, local |-> file]

\* a request that was answered with status 200 and the 'id' read from it
has_id(response) ==
    /\ response # ConnectionError
    /\ response.status_code = 200
    /\ response.body = "id"

\* the with-block once the content request returned 200
write_local_file(file, content, write, sent) ==
    CASE write = "ok" -> Downloaded(PyPath(DOWNLOAD_NAME), sent, File(content.body))
      [] write = "open raised" -> Downloaded(PyNone, sent, file)
      [] write = "write raised" -> Downloaded(PyNone, sent, EmptyLocalFile)

\* the content request and what follows it
download_content(file, content, write, sent) ==
    IF content = ConnectionError \/ content.status_code # 200
    THEN Downloaded(PyNone, sent, file)
    ELSE write_local_file(file, content, write, sent)

download_sharepoint_file(cfg, e, file, token, site, drive, content, write) ==
    IF missing_config(cfg, e) THEN Downloaded(PyNone, <<>>, file)
    ELSE IF token = "raised" THEN Downloaded(PyNone, <<"token">>, file)
    ELSE IF ~has_id(site) THEN Downloaded(PyNone, <<"token", "site">>, file)
    ELSE IF ~has_id(drive)
    THEN Downloaded(PyNone, <<"token", "site", "drive">>, file)
    ELSE download_content(file, content, write,
                          <<"token", "site", "drive", "content">>)

InitDownload ==
    /\ df = EmptyFrame(<<>>)
    /\ query = NoQuery
    /\ out = PyNone
    /\ op = "init"
    /\ master = <<>>
    /\ backups = <<>>
    /\ now = 0
    /\ written = {}
    /\ master_exists = TRUE
    /\ copy = NoFile
    /\ stages = <<>>
    /\ loads = 0
    /\ requests = <<>>
    /\ local \in {NoFile, File("old bytes")}
    /\ \E miss \in CONFIG_NAMES \cup {"SHAREPOINT_UPLOAD_FOLDER", "none"},
          how \in {Unset, Env("")} :
          /\ config = [k \in CONFIG_NAMES |->
                          IF k = miss THEN how ELSE Env("configured")]
          /\ env = IF miss = "SHAREPOINT_UPLOAD_FOLDER" THEN how
                   ELSE Env("/Kilowatt/Client Pricing Sheets/Input Files")

DownloadSharepointFile ==
    \E token \in token_outcomes, site \in InfoResponses, drive \in InfoResponses,
       content \in ContentResponses, write \in write_outcomes :
        \E res \in {download_sharepoint_file(config, env, local, token, site,
                                             drive, content, write)} :
            /\ op = "init"
            /\ op' = "download_sharepoint_file"
            /\ out' = res.ret
            /\ requests' = res.requests
            /\ local' = res.local
            /\ query' = [token |-> token, site |-> site, drive |-> drive,
                         content |-> content, write |-> write]
            /\ UNCHANGED <<df, master, backups, now, written, master_exists,
                           copy, env, stages, loads, config>>

NextDownload == DownloadSharepointFile

SpecDownload == InitDownload /\ [][NextDownload]_vars


\* the Graph requests among the calls sent out
GraphRequests(sent) == SelectSeq(sent, LAMBDA r : r # "token")

\* a request that returned status 200
Returned200(response) ==
    response # ConnectionError /\ response.status_code = 200

\* what C21 states of one call, given the answers the call met
DownloadAsStated(answers, sent, ret, before, after) ==
    /\ missing_config(config, env) => ret = PyNone /\ sent = <<>>
    /\ GraphRequests(sent) \in {<<>>, <<"site">>, <<"site", "drive">>,
                                <<"site", "drive", "content">>}
    /\ Len(GraphRequests(sent)) >= 1 /\ ~Returned200(answers.site)
          => Len(GraphRequests(sent)) = 1
    /\ Len(GraphRequests(sent)) >= 2 /\ ~Returned200(answers.drive)
          => Len(GraphRequests(sent)) = 2
    /\ ret # PyNone =>
          /\ Len(GraphRequests(sent)) = 3
          /\ Returned200(answers.site)
          /\ Returned200(answers.drive)
          /\ Returned200(answers.content)
          /\ ret = PyPath(DOWNLOAD_NAME)
          /\ after = File(answers.content.body)
    /\ ret = PyNone => after = before

C21_Step ==
    Called("download_sharepoint_file") =>
        DownloadAsStated(query', requests', out', local, local')

\* C21: download_sharepoint_file returns None without sending anything when
\* one of the six configuration values is missing; the site, drive and
\* content requests go out in that order and none follows a request that
\* did not return 200; the path is returned and the file written only when
\* all three returned 200; whenever None is returned the file at
\* download_path is what it was before the call (none, or the old file).
C21_DownloadOrNothing == [][C21_Step]_vars


\* the code parse_lf gives for the k-th suffix of parse_zone
LoadCode(k) ==
    <<PyStr(<<"L","O","W">>), PyStr(<<"M","E","D">>), PyStr(<<"H","I","G","H">>)>>[k]

\* text that still names a load factor
HasLoadFactorText(s) ==
    \/ contains(s, LOW_LOAD_FACTOR)
    \/ contains(s, MEDIUM_LOAD_FACTOR)
    \/ contains(s, HIGH_LOAD_FACTOR)

\* Zone was obtained from description d by removing the k-th suffix
RemovedSuffix(d, zone, k) ==
    endswith(strip(d), LF_TOKENS[k]) /\ zone \o LF_TOKENS[k] = strip(d)

\* Zone and Load of an output row agree when a suffix was removed
SuffixGivesCode(i) ==
    \A k \in 1..Len(LF_TOKENS) :
        RemovedSuffix(df.rows[i][Cols.desc].s, OutCell(i, "Zone").s, k)
            => OutCell(i, "Load") = LoadCode(k)

\* C22: Zone and Load derived from one description are consistent: when
\* parse_zone removed a load-factor suffix, Load is the code of that
\* suffix, and when Load is not empty, Zone is the description without the
\* load-factor text.
C22_ZoneLoadConsistent ==
    (Mapped /\ Cols.desc # 0) =>
        \A i \in Labels(out) :
            /\ SuffixGivesCode(i)
            /\ OutCell(i, "Load") # PyStr(<<>>)
                  => ~HasLoadFactorText(OutCell(i, "Zone").s)

====
